---- MODULE Spec2Model ----
(***************************************************************************)
(* Verification model of the realtime language evaluator.                  *)
(*                                                                         *)
(*  - SpecEval : the server route POST /finalEvaluation                    *)
(*               (src/client/components/App.jsx:395-551).                  *)
(*  - SpecPair : the same route serving two requests side by side, used    *)
(*               for properties that relate two runs of the handler.       *)
(*  - Spec     : the client session of the final App component             *)
(*               (src/unnamed/part_005:265-611): start, channel open,      *)
(*               inbound messages, typed messages, stop and transcript.    *)
(*                                                                         *)
(* The score formula runs on JavaScript numbers.  A double d is held       *)
(* exactly as the record [n, e] with d = n/100 + e/(100 * 2^60), and       *)
(* every arithmetic step rounds to the nearest double, ties to even, as    *)
(* IEEE 754 does.                                                          *)
(***************************************************************************)
EXTENDS Integers, Sequences, FiniteSets, TLC

VARIABLES
    \* ---- server: one slot per in-flight /finalEvaluation request
    srvPc,          \* "idle" | "awaiting" (at the await of line 456) | "replied"
    reqBody,        \* req.body of the request in the slot
    remoteOut,      \* completion.choices[0].message.parsed as received
    reply,          \* [status, success, evaluation] sent back
    remoteCalls,    \* calls made to openai...parse for the request in the slot
    \* ---- client: state of the App component (src/unnamed/part_005:265-611)
    isSessionActive,
    events,         \* useState([]): the event log, index 1 = most recent
    dataChannel,    \* useState(null): "null" or the channel held in state
    evaluationResults,
    channelState,   \* readyState of the session's RTCDataChannel
    msgListeners,   \* "message" listeners registered on that channel
    sent,           \* events handed to dataChannel.send, oldest first
    startPc,        \* position of the async startSession
    startDataChannel, \* the dataChannel that startSession's closures see
    pendingEvals,   \* /finalEvaluation fetches of stopSession in flight
    textConversation, \* what buildTextConversation returned at the last stop
    stopOutcome,    \* "none" | "empty" (stopSession returned early) | "sent"
    arrival,        \* history: the entries of the log in the order recorded
    nextEventId,    \* history: events created since the log was cleared
    evalReply,      \* history: how the fetch behind evaluationResults ended
    lastSend,       \* history: the last call of sendEventToModel and its outcome
    \* ---- EvaluationPanel (src/client/components/EvaluationPanel.jsx)
    panelProps,     \* the props of the last render: isSessionActive, evaluationResults
    instructionsSent,
    isLoading,
    panelView,      \* what the last render returned
    \* ---- the tool-call App (src/unnamed/part_003:13-244)
    tcIsSessionActive,
    tcEvents,       \* useState([]): the event log, index 1 = most recent
    tcDataChannel,  \* useState(null): "null" or the channel held in state
    tcEvaluationResults, \* useState([]): the observation history
    tcChannelState, \* readyState of the session's RTCDataChannel
    tcSent,         \* events handed to dataChannel.send, oldest first
    tcStartPc,      \* position of the async startSession
    tcUuids,        \* crypto.randomUUID() values drawn so far
    tcSession,      \* history: sessions that became active so far
    tcRecordedIn,   \* history: per observation, the session that recorded it
    tcDelivered,    \* history: channel messages delivered so far
    tcLast,         \* history: the last message and the lengths before it
    \* ---- the tool-registering panel (src/unnamed/part_001:16-124)
    toolRegistered, \* useState(false)
    timers,         \* pending setTimeout callbacks: the sessions that set them
    tcAttempts,     \* history: calls of dataChannel.send on a channel not open
    \* ---- a call of buildTextConversation on its own
    fnInput,        \* the event list passed
    fnOutput        \* what the calls returned

srvVars == <<srvPc, reqBody, remoteOut, reply, remoteCalls>>
cliVars == <<isSessionActive, events, dataChannel, evaluationResults,
             channelState, msgListeners, sent, startPc, startDataChannel,
             pendingEvals, textConversation, stopOutcome, arrival, nextEventId,
             evalReply, lastSend>>
panelVars == <<panelProps, instructionsSent, isLoading, panelView>>
toolVars == <<tcIsSessionActive, tcEvents, tcDataChannel, tcEvaluationResults,
              tcChannelState, tcSent, tcStartPc, tcUuids, tcSession,
              tcRecordedIn, tcDelivered, tcLast>>
regVars == <<toolRegistered, timers, tcAttempts>>
fnVars == <<fnInput, fnOutput>>
vars == <<srvVars, cliVars, panelVars, toolVars, regVars, fnVars>>

(***************************************************************************)
(* JavaScript Number arithmetic.  A double d is held as [n, e]:            *)
(*      d  =  n / 100  +  e / (100 * 2^60)                                 *)
(* n is the exact decimal value in hundredths and e the binary rounding    *)
(* error.  Every double of the score formula is 0 or has a magnitude in    *)
(* [2^-8, 2^8), so it is a multiple of 2^-60 and e is an integer.          *)
(***************************************************************************)
Pow2[k \in Nat] == IF k = 0 THEN 1 ELSE 2 * Pow2[k - 1]

Pow2Mod200[q \in Nat] == IF q = 0 THEN 1 ELSE (2 * Pow2Mod200[q - 1]) % 200

\* the binade of a positive value: the k with 2^k <= n/100 + e/U < 2^(k+1),
\* searched downwards from k
Binade[n \in Int, e \in Int, k \in Int] ==
    IF k >= 0
    THEN IF n > 100 * Pow2[k] \/ (n = 100 * Pow2[k] /\ e >= 0) THEN k
         ELSE Binade[n, e, k - 1]
    ELSE IF n * Pow2[-k] > 100 \/ (n * Pow2[-k] = 100 /\ e >= 0) THEN k
         ELSE Binade[n, e, k - 1]

\* n/100 + e/U rounded to a multiple of the ulp G: rem is its remainder
\* modulo G and odd tells whether the multiple below it is odd
RoundAt[n \in Int, e \in Int, G \in Int, rem \in Int, odd \in BOOLEAN] ==
    IF (2 * rem > G) \/ (2 * rem = G /\ odd)
    THEN [n |-> n, e |-> e - rem + G]
    ELSE [n |-> n, e |-> e - rem]

\* r is the value modulo two ulps, in units of 1/U
RoundIn[n \in Int, e \in Int, G \in Int, r \in Int] ==
    RoundAt[n, e, G, r % G, r >= G]

\* sh = 2^(k+8) is the ulp in units of 100/U and p = 2^(52-k) mod 200
RoundBy[n \in Int, e \in Int, sh \in Int, p \in Int] ==
    RoundIn[n, e, 100 * sh, (sh * (((n % 200) * p) % 200) + e) % (200 * sh)]

RoundInBinade[n \in Int, e \in Int, k \in Int] ==
    RoundBy[n, e, Pow2[k + 8], Pow2Mod200[52 - k]]

\* round-to-nearest, ties-to-even, of the real n/100 + e/U to a double
RoundPositive[n \in Int, e \in Int] == RoundInBinade[n, e, Binade[n, e, 8]]

Double == [n : Int, e : Int]
Negate[d \in Double] == [n |-> -d.n, e |-> -d.e]

RoundToDouble[n \in Int, e \in Int] ==
    IF n = 0 THEN [n |-> 0, e |-> e]
    ELSE IF n < 0 THEN Negate[RoundPositive[-n, -e]]
    ELSE RoundPositive[n, e]

FromInt[x \in Int] == [n |-> 100 * x, e |-> 0]
\* x / y, where y divides 100 x
DivInt[x \in Int, y \in Int] == RoundToDouble[(100 * x) \div y, 0]
\* d * x
MulInt[d \in Double, x \in Int] == RoundToDouble[x * d.n, x * d.e]
\* a + b
Add[a \in Double, b \in Double] == RoundToDouble[a.n + b.n, a.e + b.e]
\* Math.min(a, b)
MathMin[a \in Double, b \in Double] ==
    IF a.n < b.n \/ (a.n = b.n /\ a.e <= b.e) THEN a ELSE b
\* Math.round: the nearest integer, a tie going towards +Infinity
MathRound[d \in Double] ==
    IF d.n % 100 = 50 /\ d.e < 0 THEN (d.n - 50) \div 100
    ELSE (d.n + 50) \div 100
\* the literal 0.6
SkillWeight == RoundToDouble[60, 0]

(***************************************************************************)
(* POST /finalEvaluation: the data of a remote-model output                *)
(***************************************************************************)
SkillOrder == <<"pronunciation", "grammar", "vocabulary", "fluency",
                "listening_comprehension">>
SkillNames == {SkillOrder[i] : i \in 1..Len(SkillOrder)}

\* Object.entries(cefr_minimums), in insertion order
cefr_minimums == <<
    [level |-> "C2", min_score |-> 95],
    [level |-> "C1", min_score |-> 85],
    [level |-> "B2", min_score |-> 70],
    [level |-> "B1", min_score |-> 55],
    [level |-> "A2", min_score |-> 35],
    [level |-> "A1", min_score |-> 15],
    [level |-> "Below A1", min_score |-> 0] >>

\* const calculateOverallScore = (evaluation) => { ... }
\* Object.values(evaluation.skills).reduce((sum, skill) => sum + skill.score * 0.6, 0)
Skills == [SkillNames -> [score : Int]]
SkillsReduce[skills \in Skills, i \in Nat] ==
    IF i = 0 THEN FromInt[0]
    ELSE Add[SkillsReduce[skills, i - 1], MulInt[SkillWeight, skills[SkillOrder[i]].score]]

\* calculateOverallScore as it would be if the route kept the number the
\* remote model proposed
calculateOverallScoreTrusting(evaluation) ==
    evaluation.final_scores.overall_score

calculateOverallScore(evaluation) ==
    LET skillsScore == SkillsReduce[evaluation.skills, Len(SkillOrder)]
        cd == evaluation.conversation_depth
        qm == evaluation.quantitative_measures
        depthScore == FromInt[(cd.complexity_achieved * 2)
                              + (IF cd.substantive_discussion THEN 5 ELSE 0)
                              + (cd.longest_response_quality * 1)]
        quantScore ==
            Add[Add[Add[MulInt[DivInt[qm.response_rate, 100], 5],
                        MulInt[DivInt[qm.grammar_accuracy, 100], 5]],
                    MulInt[DivInt[qm.vocabulary_range, 100], 5]],
                MulInt[MathMin[DivInt[qm.average_response_length, 50], FromInt[1]], 5]]
    IN  MathRound[Add[Add[skillsScore, depthScore], quantScore]]

\* for (const [level, min_score] of Object.entries(cefr_minimums)) { ... break; }
RECURSIVE AlignCefr(_, _, _)
AlignCefr(overall_score, cefr_level, i) ==
    IF i > Len(cefr_minimums) THEN cefr_level
    ELSE IF overall_score >= cefr_minimums[i].min_score THEN cefr_minimums[i].level
    ELSE AlignCefr(overall_score, cefr_level, i + 1)

\* lines 520-542: the evaluation object as returned to the caller
PostProcess(evaluation) ==
    LET score == calculateOverallScore(evaluation)
    IN  [evaluation EXCEPT
            !.final_scores.overall_score = score,
            !.final_scores.cefr_level =
                AlignCefr(score, evaluation.final_scores.cefr_level, 1)]

(***************************************************************************)
(* Inputs of the route: request bodies and remote-model outputs that fit   *)
(* EvaluationSchema (z.number().int() bounds no score).  The fields the    *)
(* handler only passes through (string lists, recommended_level) are left  *)
(* out.                                                                    *)
(***************************************************************************)
Slots == {"r1", "r2"}

NoEvaluation == [none |-> TRUE]

\* hasBody: req.body is an object (it is undefined for a request sent
\* without a payload, null for the JSON payload null)
RequestBodies ==
    { [hasBody |-> FALSE, hasConversation |-> FALSE, conversation |-> <<>>],
      [hasBody |-> TRUE, hasConversation |-> FALSE, conversation |-> <<>>],
      [hasBody |-> TRUE, hasConversation |-> TRUE, conversation |-> <<>>],
      [hasBody |-> TRUE, hasConversation |-> TRUE, conversation |->
          << [role |-> "assistant", text |-> <<"h", "i">>],
             [role |-> "user", text |-> <<"s", "i">>] >>] }

SkillScores == {-1, 18, 20}

SkillBlocks == [SkillNames -> [score : SkillScores]]

DepthBlocks ==
    { [complexity_achieved |-> 0, substantive_discussion |-> FALSE,
       longest_response_quality |-> 0],
      [complexity_achieved |-> 3, substantive_discussion |-> FALSE,
       longest_response_quality |-> 2],
      [complexity_achieved |-> 5, substantive_discussion |-> TRUE,
       longest_response_quality |-> 5],
      [complexity_achieved |-> 6, substantive_discussion |-> TRUE,
       longest_response_quality |-> 5] }

QuantBlocks ==
    { [response_rate |-> 0, average_response_length |-> 0,
       grammar_accuracy |-> 0, vocabulary_range |-> 0],
      [response_rate |-> 0, average_response_length |-> 25,
       grammar_accuracy |-> 100, vocabulary_range |-> 0],
      [response_rate |-> 75, average_response_length |-> 16,
       grammar_accuracy |-> 75, vocabulary_range |-> 64],
      [response_rate |-> 100, average_response_length |-> 50,
       grammar_accuracy |-> 100, vocabulary_range |-> 100],
      [response_rate |-> 100, average_response_length |-> 80,
       grammar_accuracy |-> 100, vocabulary_range |-> 100] }

FinalBlocks ==
    { [overall_score |-> 0, cefr_level |-> "C2"],
      [overall_score |-> 77, cefr_level |-> "Below A1"] }

Outputs(SB, DB, QB, FB) ==
    [skills : SB, conversation_depth : DB, quantitative_measures : QB,
     final_scores : FB]

ModelOutputs == Outputs(SkillBlocks, DepthBlocks, QuantBlocks, FinalBlocks)

\* the outputs used when two requests are served side by side
UniformSkillBlocks == { [s \in SkillNames |-> [score |-> v]] : v \in SkillScores }
PairOutputs ==
    Outputs(UniformSkillBlocks, DepthBlocks,
            {q \in QuantBlocks : q.response_rate = 0}, FinalBlocks)

(***************************************************************************)
(* POST /finalEvaluation, the handler                                      *)
(***************************************************************************)
\* lines 395-456: from the request to the reply 400 or to the await of the
\* completion call; destructuring a req.body that is no object throws at
\* line 397, inside the try, and the catch of lines 544-550 replies 500
FinalEvaluationRequest(r, body) ==
    /\ srvPc[r] # "awaiting"
    /\ reqBody' = [reqBody EXCEPT ![r] = body]
    /\ remoteOut' = [remoteOut EXCEPT ![r] = NoEvaluation]
    /\ IF ~body.hasBody
       THEN /\ reply' = [reply EXCEPT ![r] =
                    [status |-> 500, success |-> "false", evaluation |-> NoEvaluation]]
            /\ remoteCalls' = [remoteCalls EXCEPT ![r] = 0]
            /\ srvPc' = [srvPc EXCEPT ![r] = "replied"]
       ELSE IF ~body.hasConversation \/ Len(body.conversation) = 0
       THEN /\ reply' = [reply EXCEPT ![r] =
                    [status |-> 400, success |-> "absent", evaluation |-> NoEvaluation]]
            /\ remoteCalls' = [remoteCalls EXCEPT ![r] = 0]
            /\ srvPc' = [srvPc EXCEPT ![r] = "replied"]
       ELSE /\ reply' = [reply EXCEPT ![r] =
                    [status |-> 0, success |-> "absent", evaluation |-> NoEvaluation]]
            /\ remoteCalls' = [remoteCalls EXCEPT ![r] = 1]
            /\ srvPc' = [srvPc EXCEPT ![r] = "awaiting"]
    /\ UNCHANGED <<cliVars, panelVars, toolVars, regVars, fnVars>>

\* lines 492-542: the completion resolves with a parsed output
FinalEvaluationResolve(r, parsed) ==
    /\ srvPc[r] = "awaiting"
    /\ remoteOut' = [remoteOut EXCEPT ![r] = parsed]
    /\ reply' = [reply EXCEPT ![r] =
            [status |-> 200, success |-> "true", evaluation |-> PostProcess(parsed)]]
    /\ srvPc' = [srvPc EXCEPT ![r] = "replied"]
    /\ UNCHANGED <<reqBody, remoteCalls, cliVars, panelVars, toolVars, regVars, fnVars>>

\* the catch as it would be if a failed completion call were made again
FinalEvaluationRejectRetrying(r) ==
    /\ srvPc[r] = "awaiting"
    /\ remoteCalls' = [remoteCalls EXCEPT ![r] = remoteCalls[r] + 1]
    /\ UNCHANGED <<srvPc, reqBody, remoteOut, reply, cliVars, panelVars, toolVars, regVars, fnVars>>

\* lines 544-550: the completion call throws, or message.parsed is null and
\* calculateOverallScore throws on it
FinalEvaluationReject(r) ==
    /\ srvPc[r] = "awaiting"
    /\ reply' = [reply EXCEPT ![r] =
            [status |-> 500, success |-> "false", evaluation |-> NoEvaluation]]
    /\ srvPc' = [srvPc EXCEPT ![r] = "replied"]
    /\ UNCHANGED <<reqBody, remoteOut, remoteCalls, cliVars, panelVars, toolVars, regVars, fnVars>>

ServerInit ==
    /\ srvPc = [r \in Slots |-> "idle"]
    /\ reqBody = [r \in Slots |->
                    [hasBody |-> FALSE, hasConversation |-> FALSE, conversation |-> <<>>]]
    /\ remoteOut = [r \in Slots |-> NoEvaluation]
    /\ reply = [r \in Slots |->
                  [status |-> 0, success |-> "absent", evaluation |-> NoEvaluation]]
    /\ remoteCalls = [r \in Slots |-> 0]

NoSend == [none |-> TRUE]

ClientInit ==
    /\ isSessionActive = FALSE
    /\ events = <<>>
    /\ dataChannel = "null"
    /\ evaluationResults = NoEvaluation
    /\ channelState = "none"
    /\ msgListeners = {}
    /\ sent = <<>>
    /\ startPc = "none"
    /\ startDataChannel = "null"
    /\ pendingEvals = 0
    /\ textConversation = <<>>
    /\ stopOutcome = "none"
    /\ arrival = <<>>
    /\ nextEventId = 0
    /\ evalReply = "none"
    /\ lastSend = NoSend

\* the panel as mounted by the first render of App
PanelInit ==
    /\ panelProps = [isSessionActive |-> FALSE, evaluationResults |-> NoEvaluation]
    /\ instructionsSent = FALSE
    /\ isLoading = FALSE
    /\ panelView = [kind |-> "noSession"]

NoDelivery == [none |-> TRUE]

ToolInit ==
    /\ tcIsSessionActive = FALSE
    /\ tcEvents = <<>>
    /\ tcDataChannel = "null"
    /\ tcEvaluationResults = <<>>
    /\ tcChannelState = "none"
    /\ tcSent = <<>>
    /\ tcStartPc = "none"
    /\ tcUuids = 0
    /\ tcSession = 0
    /\ tcRecordedIn = <<>>
    /\ tcDelivered = 0
    /\ tcLast = NoDelivery

RegisterInit ==
    /\ toolRegistered = FALSE
    /\ timers = {}
    /\ tcAttempts = <<>>

NoResult == [none |-> TRUE]

FnInit ==
    /\ fnInput = <<>>
    /\ fnOutput = NoResult

Init ==
    /\ ServerInit /\ ClientInit /\ PanelInit /\ ToolInit
    /\ RegisterInit /\ FnInit

NextEval ==
    \/ \E body \in RequestBodies : FinalEvaluationRequest("r1", body)
    \/ \E parsed \in ModelOutputs : FinalEvaluationResolve("r1", parsed)
    \/ FinalEvaluationReject("r1")

SpecEval == Init /\ [][NextEval]_vars

NextPair ==
    \/ \E r \in Slots, body \in RequestBodies : FinalEvaluationRequest(r, body)
    \/ \E r \in Slots, parsed \in PairOutputs : FinalEvaluationResolve(r, parsed)
    \/ \E r \in Slots : FinalEvaluationReject(r)

SpecPair == Init /\ [][NextPair]_vars

(***************************************************************************)
(* Properties of POST /finalEvaluation                                     *)
(***************************************************************************)
Succeeded(r) == srvPc[r] = "replied" /\ reply[r].status = 200

ReturnedScore(r) == reply[r].evaluation.final_scores.overall_score
ReturnedLevel(r) == reply[r].evaluation.final_scores.cefr_level

\* the threshold table as the specification states it
CefrBand(s) ==
    IF s >= 95 THEN "C2"
    ELSE IF s >= 85 THEN "C1"
    ELSE IF s >= 70 THEN "B2"
    ELSE IF s >= 55 THEN "B1"
    ELSE IF s >= 35 THEN "A2"
    ELSE IF s >= 15 THEN "A1"
    ELSE "Below A1"

BandRank(level) ==
    CASE level = "Below A1" -> 0
      [] level = "A1" -> 1
      [] level = "A2" -> 2
      [] level = "B1" -> 3
      [] level = "B2" -> 4
      [] level = "C1" -> 5
      [] level = "C2" -> 6

\* C1: in every successful response the returned cefr_level is the band
\* of the threshold table for the returned overall_score, whatever level the
\* remote model proposed and whatever sub-scores it returned.
C1_LevelIsBandOfScore ==
    Succeeded("r1") => ReturnedLevel("r1") = CefrBand(ReturnedScore("r1"))

\* C1: a successful response whose sub-scores lie below their declared range
\* and whose proposed level was not "Below A1"
C1_OutOfRangeServed ==
    /\ Succeeded("r1")
    /\ \A s \in SkillNames : remoteOut["r1"].skills[s].score < 0
    /\ remoteOut["r1"].final_scores.cefr_level = "C2"

\* C2: for every remote-model output that fits the schema, the returned
\* overall_score is an integer in 0..100, also with sub-scores outside their
\* declared ranges.
C2_ScoreWithin0And100 ==
    Succeeded("r1") => ReturnedScore("r1") \in 0..100

SameSubScores(a, b) ==
    /\ a.skills = b.skills
    /\ a.conversation_depth = b.conversation_depth
    /\ a.quantitative_measures = b.quantitative_measures

\* C3: two remote-model outputs that are equal except for
\* final_scores.overall_score and final_scores.cefr_level produce the same
\* returned overall_score.
C3_ScoreDependsOnSubScoresOnly ==
    (/\ Succeeded("r1")
     /\ Succeeded("r2")
     /\ SameSubScores(remoteOut["r1"], remoteOut["r2"]))
    => ReturnedScore("r1") = ReturnedScore("r2")

\* C3: two requests served from outputs with the same sub-scores and
\* different proposed final scores, neither proposal being the number returned
C3_SameSubScoresServedTwice ==
    /\ Succeeded("r1")
    /\ Succeeded("r2")
    /\ SameSubScores(remoteOut["r1"], remoteOut["r2"])
    /\ remoteOut["r1"].final_scores.overall_score
         # remoteOut["r2"].final_scores.overall_score
    /\ ReturnedScore("r1") # remoteOut["r1"].final_scores.overall_score
    /\ ReturnedScore("r1") # remoteOut["r2"].final_scores.overall_score

\* the weighted sum of the specification, in hundredths of a point, and its
\* rounding to the nearest integer (a half rounds up)
SumSkillScores(skills) ==
    skills["pronunciation"].score + skills["grammar"].score
    + skills["vocabulary"].score + skills["fluency"].score
    + skills["listening_comprehension"].score

Min(a, b) == IF a <= b THEN a ELSE b

WeightedSumHundredths(o) ==
    60 * SumSkillScores(o.skills)
    + 200 * o.conversation_depth.complexity_achieved
    + (IF o.conversation_depth.substantive_discussion THEN 500 ELSE 0)
    + 100 * o.conversation_depth.longest_response_quality
    + 5 * o.quantitative_measures.response_rate
    + 5 * o.quantitative_measures.grammar_accuracy
    + 5 * o.quantitative_measures.vocabulary_range
    + Min(10 * o.quantitative_measures.average_response_length, 500)

RoundHundredths(h) == (h + 50) \div 100

InDeclaredRanges(o) ==
    /\ \A s \in SkillNames : o.skills[s].score \in 0..20
    /\ o.conversation_depth.complexity_achieved \in 0..5
    /\ o.conversation_depth.longest_response_quality \in 0..5
    /\ o.quantitative_measures.response_rate \in 0..100
    /\ o.quantitative_measures.grammar_accuracy \in 0..100
    /\ o.quantitative_measures.vocabulary_range \in 0..100
    /\ o.quantitative_measures.average_response_length >= 0

\* C4: the recomputed overall_score equals round(0.6 * sum of the skill
\* scores + 2 * complexity + (5 if substantive) + response quality
\* + 5 * response_rate / 100 + 5 * grammar_accuracy / 100
\* + 5 * vocabulary_range / 100 + 5 * min(average length / 50, 1)); stated
\* here for the outputs whose sub-scores lie in their declared ranges.
C4_ScoreIsRoundedWeightedSum ==
    (Succeeded("r1") /\ InDeclaredRanges(remoteOut["r1"]))
    => ReturnedScore("r1") = RoundHundredths(WeightedSumHundredths(remoteOut["r1"]))

\* C4: every skill at 20, complexity 5, substantive, response quality 5, the
\* percentages at 100 and an average length above 50 served with score 100
C4_AllMaximalServed ==
    /\ Succeeded("r1")
    /\ \A s \in SkillNames : remoteOut["r1"].skills[s].score = 20
    /\ remoteOut["r1"].conversation_depth.complexity_achieved = 5
    /\ remoteOut["r1"].conversation_depth.substantive_discussion
    /\ remoteOut["r1"].conversation_depth.longest_response_quality = 5
    /\ remoteOut["r1"].quantitative_measures.response_rate = 100
    /\ remoteOut["r1"].quantitative_measures.grammar_accuracy = 100
    /\ remoteOut["r1"].quantitative_measures.vocabulary_range = 100
    /\ remoteOut["r1"].quantitative_measures.average_response_length = 80
    /\ ReturnedScore("r1") = 100
    /\ ReturnedLevel("r1") = "C2"

\* C5: the band derived from an overall score s is C2 if s >= 95, else C1
\* if s >= 85, else B2 if s >= 70, else B1 if s >= 55, else A2 if s >= 35,
\* else A1 if s >= 15, else Below A1, and a higher score never gives a lower
\* band.
C5_BandsFollowThresholds ==
    \A a, b \in Slots :
        (Succeeded(a) /\ Succeeded(b)) =>
            /\ (ReturnedScore(a) >= 95) = (ReturnedLevel(a) = "C2")
            /\ (ReturnedScore(a) \in 85..94) = (ReturnedLevel(a) = "C1")
            /\ (ReturnedScore(a) \in 70..84) = (ReturnedLevel(a) = "B2")
            /\ (ReturnedScore(a) \in 55..69) = (ReturnedLevel(a) = "B1")
            /\ (ReturnedScore(a) \in 35..54) = (ReturnedLevel(a) = "A2")
            /\ (ReturnedScore(a) \in 15..34) = (ReturnedLevel(a) = "A1")
            /\ (ReturnedScore(a) < 15) = (ReturnedLevel(a) = "Below A1")
            /\ (ReturnedScore(a) <= ReturnedScore(b)
                  => BandRank(ReturnedLevel(a)) <= BandRank(ReturnedLevel(b)))

\* C5: a score of the table's range served with its band, next to a lower
\* score served with a higher band
C5_LowerScoreHigherBand ==
    \E a, b \in Slots :
        /\ Succeeded(a) /\ Succeeded(b)
        /\ ReturnedScore(a) < ReturnedScore(b)
        /\ ReturnedScore(b) \in 0..100
        /\ BandRank(ReturnedLevel(a)) > BandRank(ReturnedLevel(b))

ConversationMissingOrEmpty(body) ==
    ~body.hasBody \/ ~body.hasConversation \/ body.conversation = <<>>

\* C10: a request whose conversation is missing or has zero turns is
\* rejected with HTTP 400, and the remote model is not called for it.
C10_EmptyConversationRejected ==
    (srvPc["r1"] # "idle" /\ ConversationMissingOrEmpty(reqBody["r1"]))
    => /\ srvPc["r1"] = "replied"
       /\ reply["r1"].status = 400
       /\ remoteCalls["r1"] = 0

\* C10: a request carrying a conversation of zero turns was answered 400
C10_EmptyConversationAnswered ==
    /\ srvPc["r1"] = "replied"
    /\ reqBody["r1"].hasBody
    /\ reqBody["r1"].hasConversation
    /\ reqBody["r1"].conversation = <<>>
    /\ reply["r1"].status = 400

HasTurns(body) == ~ConversationMissingOrEmpty(body)

MaxEvents == 3      \* events created (received or sent) while a log is live
MaxPending == 1     \* /finalEvaluation fetches in flight at once

NoItem == [type |-> "none", role |-> "", content |-> <<>>]

\* what the realtime service delivers over the data channel
Transcripts == { <<"h", "i">>, <<" ", "s", "i", " ">>, <<" ">> }

InboundEvents ==
    { [type |-> t, transcript |-> tr, item |-> NoItem] :
        t \in {"conversation.item.input_audio_transcription.completed",
               "response.audio_transcript.done"},
        tr \in Transcripts }
    \cup { [type |-> "response.done", transcript |-> <<>>, item |-> NoItem] }

\* what SessionControls.handleSend passes on: draft.trim(), never empty
UserTexts == { <<"o", "k">> }

WithId(evt, id) ==
    [type |-> evt.type, transcript |-> evt.transcript, item |-> evt.item,
     event_id |-> id]

\* String.prototype.trim
RECURSIVE TrimStart(_)
TrimStart(str) ==
    IF str = <<>> \/ Head(str) # " " THEN str ELSE TrimStart(Tail(str))

RECURSIVE TrimEnd(_)
TrimEnd(str) ==
    IF str = <<>> \/ str[Len(str)] # " " THEN str
    ELSE TrimEnd(SubSeq(str, 1, Len(str) - 1))

Trim(str) == TrimEnd(TrimStart(str))

\* Array.prototype.reverse: the array in the opposite order (it is the same
\* array object, reversed in place)
ArrayReverse(array) == [i \in 1..Len(array) |-> array[Len(array) + 1 - i]]

\* the turns of one event as they would be without the trim() calls
TurnsOfEventUntrimmed(ev) ==
    (IF ev.type = "conversation.item.input_audio_transcription.completed"
     THEN << [role |-> "user", text |-> ev.transcript] >> ELSE <<>>)
    \o
    (IF ev.type = "response.audio_transcript.done"
     THEN << [role |-> "assistant", text |-> ev.transcript] >> ELSE <<>>)

\* lines 471-486: the turns one event adds to textOnly
TurnsOfEvent(ev) ==
    (IF ev.type = "conversation.item.input_audio_transcription.completed"
     THEN << [role |-> "user", text |-> Trim(ev.transcript)] >> ELSE <<>>)
    \o
    (IF ev.type = "response.audio_transcript.done"
     THEN << [role |-> "assistant", text |-> Trim(ev.transcript)] >> ELSE <<>>)

\* lines 467-487: for (const ev of ...) { ... textOnly.push(...) }
RECURSIVE PushTurns(_, _)
PushTurns(iterated, i) ==
    IF i = 0 THEN <<>>
    ELSE PushTurns(iterated, i - 1) \o TurnsOfEvent(iterated[i])

\* buildTextConversation as it would be if the loop ran over allEvents as
\* stored, most recent first
buildTextConversationUnreversed(allEvents) ==
    PushTurns(allEvents, Len(allEvents))

\* buildTextConversation as it would be if it gathered the turns by role,
\* the user's before the assistant's
buildTextConversationByRole(allEvents) ==
    SelectSeq(PushTurns(ArrayReverse(allEvents), Len(allEvents)),
              LAMBDA turn : turn.role = "user")
    \o SelectSeq(PushTurns(ArrayReverse(allEvents), Len(allEvents)),
                 LAMBDA turn : turn.role = "assistant")

\* function buildTextConversation(allEvents): the value it returns
buildTextConversation(allEvents) ==
    PushTurns(ArrayReverse(allEvents), Len(allEvents))

\* lines 417-447: the evaluation stored when the call fails; the message of
\* the error caught, which names the failure, is part of major_weaknesses
FallbackEvaluation(failure) ==
    [skills |-> [s \in SkillNames |-> [score |-> 0]],
     conversation_depth |-> [topics_discussed |-> <<>>,
                             complexity_achieved |-> 0,
                             substantive_discussion |-> FALSE,
                             longest_response_quality |-> 0],
     quantitative_measures |-> [response_rate |-> 0, average_response_length |-> 0,
                                grammar_accuracy |-> 0, vocabulary_range |-> 0],
     final_scores |-> [overall_score |-> 0, cefr_level |-> "Below A1",
                       recommended_level |-> "Beginner"],
     critical_feedback |-> [major_weaknesses |-> << failure >>,
                            required_improvements |-> <<>>,
                            study_recommendations |-> <<>>]]

\* evaluations the server route can return to the client
ReplyEvaluations ==
    { PostProcess(o) : o \in
        Outputs({[s \in SkillNames |-> [score |-> 20]]},
                {d \in DepthBlocks : d.complexity_achieved = 5},
                {q \in QuantBlocks : q.average_response_length = 50},
                FinalBlocks) }

\* evt.event_id as a condition: 0 stands for undefined and for ""
EventIdOf(evt) == IF "event_id" \in DOMAIN evt THEN evt.event_id ELSE 0

\* line 499 as it would be with a plain assignment of crypto.randomUUID()
AssignEventIdAlways(evt, fresh) == WithId(evt, fresh)

\* line 499: evt.event_id = evt.event_id || crypto.randomUUID()
AssignEventId(evt, fresh) ==
    IF EventIdOf(evt) # 0 THEN WithId(evt, evt.event_id) ELSE WithId(evt, fresh)

\* function sendEventToModel(evt), run for the events of evts in turn by a
\* closure that sees dataChannel = dc, a channel whose readyState is
\* readyState: the log, the channel's outbound messages and the identifiers
\* it leaves behind.  RTCDataChannel.send throws an InvalidStateError unless
\* the channel is open; the exception ends the caller (st.threw).
RECURSIVE sendEventToModel(_, _, _, _)
sendEventToModel(dc, readyState, evts, st) ==
    IF evts = <<>> \/ st.threw THEN st
    ELSE IF dc = "null"
    THEN sendEventToModel(dc, readyState, Tail(evts),
            [st EXCEPT !.last = [given |-> Head(evts), readyState |-> readyState,
                                 outcome |-> "dropped"]])
    ELSE IF readyState # "open"
    THEN [st EXCEPT !.last = [given |-> Head(evts), readyState |-> readyState,
                              outcome |-> "threw"],
                    !.nextEventId = st.nextEventId + 1,
                    !.threw = TRUE]
    ELSE sendEventToModel(dc, readyState, Tail(evts),
            [events |-> << AssignEventId(Head(evts), st.nextEventId + 1) >>
                        \o st.events,
             sent |-> Append(st.sent, AssignEventId(Head(evts), st.nextEventId + 1)),
             arrival |-> Append(st.arrival,
                                AssignEventId(Head(evts), st.nextEventId + 1)),
             nextEventId |-> st.nextEventId + 1,
             last |-> [given |-> Head(evts), readyState |-> readyState,
                       outcome |-> "sent"],
             threw |-> FALSE])

ResponseCreate ==
    [type |-> "response.create", transcript |-> <<>>, item |-> NoItem]

UserMessage(text) ==
    [type |-> "conversation.item.create", transcript |-> <<>>,
     item |-> [type |-> "message", role |-> "user",
               content |-> << [type |-> "input_text", text |-> Trim(text)] >>]]

\* startSession as it would be if it marked the session active at the click
StartSessionActivating ==
    /\ ~isSessionActive
    /\ startPc = "none"
    /\ isSessionActive' = TRUE
    /\ evaluationResults' = NoEvaluation
    /\ evalReply' = "none"
    /\ startDataChannel' = dataChannel
    /\ startPc' = "token"
    /\ UNCHANGED <<events, dataChannel, channelState, msgListeners, sent,
                   pendingEvals, textConversation, stopOutcome, arrival,
                   nextEventId, lastSend, srvVars, panelVars, toolVars, regVars,
                   fnVars>>

\* lines 279-285: the click on Start, up to the await of the /token fetch
StartSession ==
    /\ ~isSessionActive
    /\ startPc = "none"
    /\ evaluationResults' = NoEvaluation
    /\ evalReply' = "none"
    /\ startDataChannel' = dataChannel
    /\ startPc' = "token"
    /\ UNCHANGED <<isSessionActive, events, dataChannel, channelState,
                   msgListeners, sent, pendingEvals, textConversation,
                   stopOutcome, arrival, nextEventId, lastSend,
                   srvVars, panelVars, toolVars, regVars, fnVars>>

\* lines 285-350: the token arrived; the channel is created, put in state
\* and given its listeners (the one of line 326 and, after the render, the
\* one of the effect of line 547); the handshake goes on
TokenFetched ==
    /\ startPc = "token"
    /\ dataChannel' = "dc"
    /\ channelState' = "connecting"
    /\ msgListeners' = {"startSession", "effect"}
    /\ sent' = <<>>
    /\ lastSend' = NoSend
    /\ startPc' = "connecting"
    /\ UNCHANGED <<isSessionActive, events, evaluationResults, startDataChannel,
                   pendingEvals, textConversation, stopOutcome, arrival,
                   nextEventId, evalReply, srvVars, panelVars, toolVars, regVars, fnVars>>

\* lines 284-287: the fetch rejects or the body carries no client_secret;
\* startSession ends with an exception
TokenFailed ==
    /\ startPc = "token"
    /\ startPc' = "none"
    /\ UNCHANGED <<isSessionActive, events, dataChannel, evaluationResults,
                   channelState, msgListeners, sent, startDataChannel,
                   pendingEvals, textConversation, stopOutcome, arrival,
                   nextEventId, evalReply, lastSend,
                   srvVars, panelVars, toolVars, regVars, fnVars>>

\* lines 313-324: the "open" listener.  sendEventToModel is the one of the
\* render in which startSession was called, so it sees that render's
\* dataChannel.  The result of an earlier stopSession is forgotten here.
ChannelOpen ==
    /\ startPc = "connecting"
    /\ channelState = "connecting"
    /\ channelState' = "open"
    /\ isSessionActive' = TRUE
    /\ LET st == sendEventToModel(startDataChannel, "open", <<ResponseCreate>>,
                    [events |-> <<>>, sent |-> sent, arrival |-> <<>>,
                     nextEventId |-> 0, last |-> lastSend, threw |-> FALSE])
       IN  /\ events' = st.events
           /\ sent' = st.sent
           /\ arrival' = st.arrival
           /\ nextEventId' = st.nextEventId
           /\ lastSend' = st.last
    /\ stopOutcome' = "none"
    /\ textConversation' = <<>>
    /\ startPc' = "none"
    /\ UNCHANGED <<dataChannel, evaluationResults, msgListeners,
                   startDataChannel, pendingEvals, evalReply, srvVars, panelVars, toolVars, regVars, fnVars>>

\* lines 326-329 and 541-545: a message of the channel, handled by every
\* registered listener in turn
RECURSIVE Repeat(_, _)
Repeat(x, n) == IF n = 0 THEN <<>> ELSE <<x>> \o Repeat(x, n - 1)

DeliverMessage(msg) ==
    /\ channelState = "open"
    /\ nextEventId < MaxEvents
    /\ LET evt == WithId(msg, nextEventId + 1)
           copies == Repeat(evt, Cardinality(msgListeners))
       IN  /\ events' = copies \o events
           /\ arrival' = arrival \o copies
    /\ nextEventId' = nextEventId + 1
    /\ UNCHANGED <<isSessionActive, dataChannel, evaluationResults,
                   channelState, msgListeners, sent, startPc, startDataChannel,
                   pendingEvals, textConversation, stopOutcome, evalReply, lastSend,
                   srvVars, panelVars, toolVars, regVars, fnVars>>

\* lines 508-533: function sendUserMessage(text)
SendUserMessage(text) ==
    /\ isSessionActive
    /\ nextEventId + 2 <= MaxEvents
    /\ LET st == sendEventToModel(dataChannel, channelState,
                    <<UserMessage(text), ResponseCreate>>,
                    [events |-> events, sent |-> sent, arrival |-> arrival,
                     nextEventId |-> nextEventId, last |-> lastSend,
                     threw |-> FALSE])
       IN  /\ events' = st.events
           /\ sent' = st.sent
           /\ arrival' = st.arrival
           /\ nextEventId' = st.nextEventId
           /\ lastSend' = st.last
    /\ UNCHANGED <<isSessionActive, dataChannel, evaluationResults,
                   channelState, msgListeners, startPc, startDataChannel,
                   pendingEvals, textConversation, stopOutcome, evalReply, srvVars, panelVars, toolVars, regVars, fnVars>>

\* lines 357-401: the click on End, up to the early return of line 383 or
\* to the await of the /finalEvaluation fetch
StopSession ==
    /\ isSessionActive
    /\ pendingEvals < MaxPending
    /\ channelState' = IF dataChannel # "null" THEN "closed" ELSE channelState
    /\ isSessionActive' = FALSE
    /\ dataChannel' = "null"
    /\ msgListeners' = msgListeners \ {"effect"}
    /\ textConversation' = buildTextConversation(events)
    /\ events' = ArrayReverse(events)          \* line 467 reverses the state array
    /\ IF Len(buildTextConversation(events)) = 0
       THEN stopOutcome' = "empty" /\ pendingEvals' = pendingEvals
       ELSE stopOutcome' = "sent" /\ pendingEvals' = pendingEvals + 1
    /\ UNCHANGED <<evaluationResults, sent, startPc, startDataChannel,
                   arrival, nextEventId, evalReply, lastSend,
                   srvVars, panelVars, toolVars, regVars, fnVars>>

\* lines 409-411: the reply carries success and an evaluation
EvaluationStored(evaluation) ==
    /\ pendingEvals > 0
    /\ pendingEvals' = pendingEvals - 1
    /\ evaluationResults' = evaluation
    /\ evalReply' = "success"
    /\ UNCHANGED <<isSessionActive, events, dataChannel, channelState,
                   msgListeners, sent, startPc, startDataChannel,
                   textConversation, stopOutcome, arrival, nextEventId, lastSend,
                   srvVars, panelVars, toolVars, regVars, fnVars>>

\* the ways the call of lines 392-414 fails: the fetch rejects, the status
\* is not 2xx (line 403), the body's success is false (line 412)
FetchFailures == {"rejected", "notOk", "unsuccessful"}

\* stopSession as it would be without its catch: the exception escapes and
\* nothing is stored
EvaluationFailedUncaught(failure) ==
    /\ pendingEvals > 0
    /\ pendingEvals' = pendingEvals - 1
    /\ evalReply' = failure
    /\ UNCHANGED <<isSessionActive, events, dataChannel, evaluationResults,
                   channelState, msgListeners, sent, startPc, startDataChannel,
                   textConversation, stopOutcome, arrival, nextEventId, lastSend,
                   srvVars, panelVars, toolVars, regVars, fnVars>>

\* lines 403-407 and 412-448: the call failed; the catch stores the fallback
EvaluationFailed(failure) ==
    /\ pendingEvals > 0
    /\ pendingEvals' = pendingEvals - 1
    /\ evaluationResults' = FallbackEvaluation(failure)
    /\ evalReply' = failure
    /\ UNCHANGED <<isSessionActive, events, dataChannel, channelState,
                   msgListeners, sent, startPc, startDataChannel,
                   textConversation, stopOutcome, arrival, nextEventId, lastSend,
                   srvVars, panelVars, toolVars, regVars, fnVars>>

Next ==
    \/ StartSession
    \/ TokenFetched
    \/ TokenFailed
    \/ ChannelOpen
    \/ \E msg \in InboundEvents : DeliverMessage(msg)
    \/ \E text \in UserTexts : SendUserMessage(text)
    \/ StopSession
    \/ \E evaluation \in ReplyEvaluations : EvaluationStored(evaluation)
    \/ \E failure \in FetchFailures : EvaluationFailed(failure)

Spec == Init /\ [][Next]_vars

\* the channel is closed by the peer or by the loss of the connection; the
\* App registers no "close" listener, so its state stays as it is
ChannelClosedByPeer ==
    /\ channelState = "open"
    /\ channelState' = "closed"
    /\ UNCHANGED <<isSessionActive, events, dataChannel, evaluationResults,
                   msgListeners, sent, startPc, startDataChannel, pendingEvals,
                   textConversation, stopOutcome, arrival, nextEventId,
                   evalReply, lastSend, srvVars, panelVars, toolVars, regVars,
                   fnVars>>

\* identifiers a caller of sendEventToModel may have put on its event
GivenEventIds == {101, 102}

\* events a caller may pass: without event_id, with an empty one, with one
SendInputs ==
    { ResponseCreate, WithId(ResponseCreate, 0) }
    \cup { WithId(evt, id) : evt \in {ResponseCreate, UserMessage(<<"o", "k">>)},
                             id \in GivenEventIds }

\* lines 497-502: sendEventToModel called on its own with an event of the
\* caller's choosing
SendEvent(evt) ==
    /\ nextEventId < MaxEvents
    /\ LET st == sendEventToModel(dataChannel, channelState, <<evt>>,
                    [events |-> events, sent |-> sent, arrival |-> arrival,
                     nextEventId |-> nextEventId, last |-> lastSend,
                     threw |-> FALSE])
       IN  /\ events' = st.events
           /\ sent' = st.sent
           /\ arrival' = st.arrival
           /\ nextEventId' = st.nextEventId
           /\ lastSend' = st.last
    /\ UNCHANGED <<isSessionActive, dataChannel, evaluationResults,
                   channelState, msgListeners, startPc, startDataChannel,
                   pendingEvals, textConversation, stopOutcome, evalReply,
                   srvVars, panelVars, toolVars, regVars, fnVars>>

NextSend ==
    \/ StartSession
    \/ TokenFetched
    \/ TokenFailed
    \/ ChannelOpen
    \/ ChannelClosedByPeer
    \/ \E msg \in InboundEvents : msg.type = "response.done" /\ DeliverMessage(msg)
    \/ \E text \in UserTexts : SendUserMessage(text)
    \/ \E evt \in SendInputs : SendEvent(evt)
    \/ StopSession

SpecSend == Init /\ [][NextSend]_vars

(***************************************************************************)
(* buildTextConversation applied on its own: the transcript variant of     *)
(* src/unnamed/part_005:460-492 and the message-item variant of            *)
(* src/client/components/App.jsx:165-188.                                  *)
(***************************************************************************)
MaxListLen == 3     \* events in a list passed to buildTextConversation

RECURSIVE ListsUpTo(_, _)
ListsUpTo(S, n) ==
    IF n = 0 THEN { <<>> }
    ELSE ListsUpTo(S, n - 1)
         \cup { Append(l, x) : l \in ListsUpTo(S, n - 1), x \in S }

\* event lists a caller may pass to the transcript variant
TranscriptLogs == ListsUpTo(InboundEvents, MaxListLen)

\* a conversation.item.create event whose item is a message
ItemMessage(role, texts) ==
    [type |-> "conversation.item.create", transcript |-> <<>>,
     item |-> [type |-> "message", role |-> role,
               content |-> [k \in 1..Len(texts) |->
                               [type |-> "input_text", text |-> texts[k]]]]]

ItemEvents ==
    { ItemMessage("user", << <<"a">> >>),
      ItemMessage("user", << <<"b">>, <<"c">> >>),
      ItemMessage("", << <<"d">> >>),
      ItemMessage("system", << <<" ">> >>),
      ItemMessage("user", <<>>),
      ResponseCreate }

\* event lists a caller may pass to the message-item variant
ItemLogs == ListsUpTo(ItemEvents, MaxListLen)

\* ev.item.content.map((c) => c.text || "").join(" ")
RECURSIVE JoinTexts(_, _)
JoinTexts(content, k) ==
    IF k = 0 THEN <<>>
    ELSE IF k = 1 THEN content[1].text
    ELSE JoinTexts(content, k - 1) \o <<" ">> \o content[k].text

\* App.jsx:171-184: what one event adds to textOnly
TurnsOfItemEvent(ev) ==
    IF /\ ev.type = "conversation.item.create"
       /\ ev.item.type = "message"
       /\ Len(ev.item.content) > 0
       /\ Trim(JoinTexts(ev.item.content, Len(ev.item.content))) # <<>>
    THEN << [role |-> IF ev.item.role = "" THEN "assistant" ELSE ev.item.role,
             text |-> Trim(JoinTexts(ev.item.content, Len(ev.item.content)))] >>
    ELSE <<>>

\* App.jsx:170-185: for (let i = allEvents.length - 1; i >= 0; i--), the
\* turns pushed once the loop has gone from the last index down to index i
RECURSIVE PushItemTurns(_, _)
PushItemTurns(allEvents, i) ==
    IF i > Len(allEvents) THEN <<>>
    ELSE PushItemTurns(allEvents, i + 1) \o TurnsOfItemEvent(allEvents[i])

\* App.jsx:168-188: the message-item buildTextConversation(allEvents); it
\* returns textOnly.reverse()
buildTextConversationOfItems(allEvents) ==
    ArrayReverse(PushItemTurns(allEvents, 1))

\* part_005:460-492 called on a list and on a reversed copy of it
BuildTranscripts(L) ==
    /\ fnOutput = NoResult
    /\ fnInput' = L
    /\ fnOutput' = [of |-> "buildTextConversation",
                    ofList |-> buildTextConversation(L),
                    ofReversed |-> buildTextConversation(ArrayReverse(L))]
    /\ UNCHANGED <<srvVars, cliVars, panelVars, toolVars, regVars>>

\* App.jsx:168-188 called on an event log
BuildFromItems(L) ==
    /\ fnOutput = NoResult
    /\ fnInput' = L
    /\ fnOutput' = [of |-> "buildTextConversationOfItems",
                    conversation |-> buildTextConversationOfItems(L)]
    /\ UNCHANGED <<srvVars, cliVars, panelVars, toolVars, regVars>>

NextBuild ==
    \/ \E L \in TranscriptLogs : BuildTranscripts(L)
    \/ \E L \in ItemLogs : BuildFromItems(L)

SpecBuild == Init /\ [][NextBuild]_vars

(***************************************************************************)
(* The evaluation panel (src/client/components/EvaluationPanel.jsx).       *)
(* Numbers are integers here; Math.round leaves an integer as it is.       *)
(***************************************************************************)
PanelSkillScores == {-5, 0, 13, 20, 25}

\* evaluation objects the panel can be handed: the shape of EvaluationSchema,
\* whose numbers the schema leaves unbounded
PanelEvaluations ==
    [skills : { [s \in SkillNames |-> [score |-> v]] : v \in PanelSkillScores },
     conversation_depth :
        { [topics_discussed |-> <<>>, complexity_achieved |-> c,
           substantive_discussion |-> FALSE, longest_response_quality |-> 0] :
          c \in {-1, 3, 7} },
     quantitative_measures :
        { [response_rate |-> 50, average_response_length |-> 20,
           grammar_accuracy |-> 50, vocabulary_range |-> 50],
          [response_rate |-> 150, average_response_length |-> 60,
           grammar_accuracy |-> 100, vocabulary_range |-> 120],
          [response_rate |-> 0, average_response_length |-> 0,
           grammar_accuracy |-> -5, vocabulary_range |-> -1] },
     final_scores :
        { [overall_score |-> o, cefr_level |-> "B1", recommended_level |-> "x"] :
          o \in {-3, 55, 102} }]

PanelPropsSet ==
    [isSessionActive : BOOLEAN,
     evaluationResults : PanelEvaluations \cup {NoEvaluation}]

\* a prop or state value used as a condition
Truthy(evaluation) == evaluation # NoEvaluation

\* value || 0
OrZero(value) == IF value = 0 THEN 0 ELSE value

MathMaxInt(a, b) == IF a >= b THEN a ELSE b
MathMinInt(a, b) == IF a <= b THEN a ELSE b
MathRoundInt(x) == x

\* validateScore as it would be without Math.max(0, ...)
validateScoreNoFloor(score, max) == MathMinInt(score, max)

\* const validateScore = (score, max) => Math.max(0, Math.min(score, max))
validateScore(score, max) == MathMaxInt(0, MathMinInt(score, max))

\* ScoreIndicator: validScore, the number shown before "/max"
ScoreIndicator(score, max) == MathMaxInt(0, MathMinInt(score, max))

DefaultCriticalFeedback ==
    [major_weaknesses |-> <<>>, required_improvements |-> <<>>,
     study_recommendations |-> <<>>]

\* lines 167-192
processedResults(evaluation) ==
    [skills |-> [s \in SkillNames |->
        [score |-> validateScore(OrZero(evaluation.skills[s].score), 20)]],
     conversation_depth |->
        [evaluation.conversation_depth EXCEPT !.complexity_achieved =
            validateScore(OrZero(evaluation.conversation_depth.complexity_achieved), 5)],
     quantitative_measures |->
        [evaluation.quantitative_measures EXCEPT !.vocabulary_range =
            validateScore(OrZero(evaluation.quantitative_measures.vocabulary_range), 100)],
     final_scores |->
        [evaluation.final_scores EXCEPT !.overall_score =
            validateScore(OrZero(evaluation.final_scores.overall_score), 100)],
     critical_feedback |->
        IF "critical_feedback" \in DOMAIN evaluation
        THEN evaluation.critical_feedback ELSE DefaultCriticalFeedback]

\* lines 202-292: the numbers and the level the returned element shows
ShownResults(processed) ==
    [cefr_level |-> processed.final_scores.cefr_level,
     overall_score |-> processed.final_scores.overall_score,
     skills |-> [s \in SkillNames |-> ScoreIndicator(processed.skills[s].score, 20)],
     complexity_achieved |-> processed.conversation_depth.complexity_achieved,
     response_rate |-> MathRoundInt(processed.quantitative_measures.response_rate),
     grammar_accuracy |-> MathRoundInt(processed.quantitative_measures.grammar_accuracy),
     average_response_length |->
        MathRoundInt(processed.quantitative_measures.average_response_length),
     vocabulary_range |-> processed.quantitative_measures.vocabulary_range]

\* lines 120-293: what the component function returns
RenderPanel(props, wasSent, loading) ==
    IF props.isSessionActive /\ ~wasSent THEN [kind |-> "skeleton"]
    ELSE IF ~props.isSessionActive /\ ~Truthy(props.evaluationResults) /\ ~loading
    THEN [kind |-> "noSession"]
    ELSE IF loading THEN [kind |-> "loading"]
    ELSE IF ~Truthy(props.evaluationResults) THEN [kind |-> "null"]
    ELSE [kind |-> "results",
          processedResults |-> processedResults(props.evaluationResults),
          shown |-> ShownResults(processedResults(props.evaluationResults))]

\* lines 101-107: the effect on [isSessionActive, instructionsSent, evaluationResults]
LoadingAfterEffect(props, wasSent, loading) ==
    IF ~props.isSessionActive /\ wasSent THEN TRUE
    ELSE IF Truthy(props.evaluationResults) THEN FALSE
    ELSE loading

\* lines 109-115: the effect on [isSessionActive]
InstructionsSentAfterEffect(props) == props.isSessionActive

EffectsPending ==
    \/ isLoading # LoadingAfterEffect(panelProps, instructionsSent, isLoading)
    \/ instructionsSent # InstructionsSentAfterEffect(panelProps)

\* App renders the panel with new props, once the effects of the render
\* before have run
PanelRender(props) ==
    /\ ~EffectsPending
    /\ panelProps' = props
    /\ panelView' = RenderPanel(props, instructionsSent, isLoading)
    /\ UNCHANGED <<instructionsSent, isLoading, srvVars, cliVars, toolVars, regVars, fnVars>>

\* the effects of the committed render set state, and the panel renders again
PanelEffects ==
    /\ EffectsPending
    /\ isLoading' = LoadingAfterEffect(panelProps, instructionsSent, isLoading)
    /\ instructionsSent' = InstructionsSentAfterEffect(panelProps)
    /\ panelView' = RenderPanel(panelProps, instructionsSent', isLoading')
    /\ UNCHANGED <<panelProps, srvVars, cliVars, toolVars, regVars, fnVars>>

NextPanel ==
    \/ \E props \in PanelPropsSet : PanelRender(props)
    \/ PanelEffects

SpecPanel == Init /\ [][NextPanel]_vars

(***************************************************************************)
(* The App of src/unnamed/part_005 with the panel it renders (lines        *)
(* 602-606).  React renders the panel and runs its effects after each      *)
(* change of the App's state, before the next event is handled.            *)
(***************************************************************************)
\* the props App passes to <EvaluationPanel> (part_005:602-606)
AppPanelProps ==
    [isSessionActive |-> isSessionActive, evaluationResults |-> evaluationResults]

PanelSettled == panelProps = AppPanelProps /\ ~EffectsPending

\* the render that follows a change of isSessionActive or evaluationResults
AppRendersPanel ==
    /\ panelProps # AppPanelProps
    /\ PanelRender(AppPanelProps)

NextApp ==
    \/ PanelSettled /\ StartSession
    \/ PanelSettled /\ TokenFetched
    \/ PanelSettled /\ TokenFailed
    \/ PanelSettled /\ ChannelOpen
    \/ PanelSettled /\ \E msg \in InboundEvents : DeliverMessage(msg)
    \/ PanelSettled /\ \E text \in UserTexts : SendUserMessage(text)
    \/ PanelSettled /\ StopSession
    \/ PanelSettled /\ \E evaluation \in ReplyEvaluations :
                            EvaluationStored(evaluation)
    \/ PanelSettled /\ \E failure \in FetchFailures : EvaluationFailed(failure)
    \/ AppRendersPanel
    \/ PanelEffects

SpecApp == Init /\ [][NextApp]_vars

\* renders and effects are not postponed for ever, and a pending
\* /finalEvaluation fetch resolves or rejects
SpecAppFair ==
    /\ SpecApp
    /\ WF_vars(AppRendersPanel)
    /\ WF_vars(PanelEffects)
    /\ WF_vars(PanelSettled /\ ((\E evaluation \in ReplyEvaluations :
                                    EvaluationStored(evaluation))
                                \/ (\E failure \in FetchFailures :
                                    EvaluationFailed(failure))))

(***************************************************************************)
(* The tool-call App (src/unnamed/part_003:13-244).  An absent string      *)
(* property (undefined) is held as "", which is as falsy as undefined.     *)
(* The timestamp fields (Date.now()) are left out.                         *)
(***************************************************************************)
MaxToolMessages == 2    \* channel messages delivered or typed, all sessions
MaxToolSessions == 2    \* sessions started

ToolName == "final_language_evaluation"

\* argument texts of a call, and what JSON.parse makes of them
GoodArguments == "{summary, final_rating: 7, coverage: {4 booleans}}"
RatingElevenArguments == "{summary, final_rating: 11, coverage: {4 booleans}}"
BrokenArguments == "{summary, final_rating: "

Coverage ==
    [introduction |-> TRUE, basics |-> TRUE, practice_grammar |-> FALSE,
     wrap_up |-> FALSE]

\* JSON.parse: ok = FALSE when it throws a SyntaxError
JSONParse(text) ==
    CASE text = GoodArguments ->
            [ok |-> TRUE,
             value |-> [summary |-> "s", final_rating |-> 7, coverage |-> Coverage]]
      [] text = RatingElevenArguments ->
            [ok |-> TRUE,
             value |-> [summary |-> "s", final_rating |-> 11, coverage |-> Coverage]]
      [] text = "{}" -> [ok |-> TRUE, value |-> <<>>]
      [] OTHER -> [ok |-> FALSE, value |-> <<>>]

\* entries of response.output and of tool_calls
RealtimeCall(name, arguments, call_id) ==
    [type |-> "function_call", name |-> name, arguments |-> arguments,
     call_id |-> call_id, id |-> "", hasFunction |-> FALSE,
     fname |-> "", farguments |-> ""]

ChatCall(fname, farguments, id) ==
    [type |-> "function", name |-> "", arguments |-> "",
     call_id |-> "", id |-> id, hasFunction |-> TRUE,
     fname |-> fname, farguments |-> farguments]

MessageItem(name, arguments, call_id) ==
    [type |-> "message", name |-> name, arguments |-> arguments,
     call_id |-> call_id, id |-> "", hasFunction |-> FALSE,
     fname |-> "", farguments |-> ""]

GoodCall == RealtimeCall(ToolName, GoodArguments, "call_1")
GoodChatCall == ChatCall(ToolName, GoodArguments, "call_2")
BrokenCall == RealtimeCall(ToolName, BrokenArguments, "call_3")
NoArgumentsCall == RealtimeCall(ToolName, "", "call_4")
RatingElevenCall == RealtimeCall(ToolName, RatingElevenArguments, "call_5")
OtherToolCall == RealtimeCall("track_language_evaluation", GoodArguments, "call_6")
NamedMessage == MessageItem(ToolName, GoodArguments, "call_7")

PairedEntries == {GoodCall, GoodChatCall, BrokenCall, OtherToolCall}
Batches ==
    { <<>> }
    \cup { <<a>> : a \in PairedEntries
                      \cup {NoArgumentsCall, RatingElevenCall, NamedMessage} }
    \cup { <<a, b>> : a \in PairedEntries, b \in PairedEntries }

ChannelMessage(type, hasOutput, output, hasToolCalls, tool_calls) ==
    [type |-> type, hasOutput |-> hasOutput, output |-> output,
     hasToolCalls |-> hasToolCalls, tool_calls |-> tool_calls]

\* what the realtime service delivers over the data channel
ToolMessages ==
    { ChannelMessage("response.done", TRUE, b, FALSE, <<>>) : b \in Batches }
    \cup { ChannelMessage("function_call", FALSE, <<>>, TRUE, b) :
             b \in { <<GoodChatCall>>, <<BrokenCall, GoodChatCall>> } }
    \cup { ChannelMessage("response.done", TRUE, b, TRUE, <<GoodChatCall>>) :
             b \in { <<>>, <<OtherToolCall>> } }
    \cup { ChannelMessage("response.output_item.done", FALSE, <<>>, FALSE, <<>>),
           ChannelMessage("response.audio_transcript.done", TRUE, <<GoodCall>>,
                          FALSE, <<>>) }

ToolUserTexts == { "hola" }

\* crypto.randomUUID(): the n-th value drawn
RandomUUID(n) == "uuid-" \o ToString(n)

\* { ...base, ...args }
Spread(base, args) ==
    [f \in (DOMAIN base) \cup (DOMAIN args) |->
        IF f \in DOMAIN args THEN args[f] ELSE base[f]]

\* function sendEventToModel(evt) of lines 96-101, called by a closure that
\* sees dataChannel = dc; st holds the state the call works on
tcSendEventToModel(dc, evt, st) ==
    IF dc = "null" THEN st
    ELSE [st EXCEPT
            !.events = << Spread(evt, [event_id |-> RandomUUID(st.uuids + 1)]) >>
                       \o st.events,
            !.sent = Append(st.sent,
                            Spread(evt, [event_id |-> RandomUUID(st.uuids + 1)])),
            !.uuids = st.uuids + 1]

\* event.response?.output || event.tool_calls || []
Candidates(event) ==
    IF event.hasOutput THEN event.output
    ELSE IF event.hasToolCalls THEN event.tool_calls
    ELSE <<>>

\* the filter of lines 136-139 as it would be without its first condition
QualifiesByNameOnly(o) ==
    o.name = ToolName \/ (o.hasFunction /\ o.fname = ToolName)

\* lines 136-139: the filter's predicate
Qualifies(o) ==
    /\ o.type = "function_call" \/ o.hasFunction
    /\ o.name = ToolName \/ (o.hasFunction /\ o.fname = ToolName)

\* call.arguments || call.function?.arguments || "{}"
ArgumentsText(call) ==
    IF call.arguments # "" THEN call.arguments
    ELSE IF call.hasFunction /\ call.farguments # "" THEN call.farguments
    ELSE "{}"

\* the acknowledgment as it would be with call_id: call.call_id alone
AcknowledgmentByCallIdOnly(call) ==
    [type |-> "conversation.item.create",
     item |-> [type |-> "function_call_output",
               call_id |-> call.call_id,
               output |-> "{success: true}"]]

\* lines 156-166: the event that acknowledges a call
Acknowledgment(call) ==
    [type |-> "conversation.item.create",
     item |-> [type |-> "function_call_output",
               call_id |-> IF call.call_id # "" THEN call.call_id ELSE call.id,
               output |-> "{success: true}"]]

\* lines 144-166: one call whose arguments parsed; the identifier is
\* call.call_id || crypto.randomUUID()
RecordCall(dc, call, args, st) ==
    IF call.call_id # ""
    THEN tcSendEventToModel(dc, Acknowledgment(call),
            [st EXCEPT
                !.results = Append(st.results, Spread([id |-> call.call_id], args)),
                !.recorded = Append(st.recorded, call)])
    ELSE tcSendEventToModel(dc, Acknowledgment(call),
            [st EXCEPT
                !.results = Append(st.results,
                                   Spread([id |-> RandomUUID(st.uuids + 1)], args)),
                !.recorded = Append(st.recorded, call),
                !.uuids = st.uuids + 1])

\* the loop as it would be with the try around the whole loop
RECURSIVE ProcessCallsAborting(_, _, _)
ProcessCallsAborting(dc, calls, st) ==
    IF calls = <<>> \/ ~JSONParse(ArgumentsText(Head(calls))).ok THEN st
    ELSE ProcessCallsAborting(dc, Tail(calls),
            RecordCall(dc, Head(calls),
                       JSONParse(ArgumentsText(Head(calls))).value, st))

\* lines 142-170: for (const call of possibleCalls) { try { ... } catch { } }
RECURSIVE ProcessCalls(_, _, _)
ProcessCalls(dc, calls, st) ==
    IF calls = <<>> THEN st
    ELSE IF ~JSONParse(ArgumentsText(Head(calls))).ok
    THEN ProcessCalls(dc, Tail(calls), st)
    ELSE ProcessCalls(dc, Tail(calls),
            RecordCall(dc, Head(calls),
                       JSONParse(ArgumentsText(Head(calls))).value, st))

\* async function handleToolCall(event): it awaits nothing
handleToolCall(dc, event, st) ==
    ProcessCalls(dc, SelectSeq(Candidates(event), Qualifies), st)

HandledTypes == {"response.done", "response.output_item.done", "function_call"}

\* lines 26-28: the click on Start, up to the await of the /token fetch
ToolStartSession ==
    /\ ~tcIsSessionActive
    /\ tcStartPc = "none"
    /\ tcSession < MaxToolSessions
    /\ tcStartPc' = "token"
    /\ UNCHANGED <<tcIsSessionActive, tcEvents, tcDataChannel, tcEvaluationResults,
                   tcChannelState, tcSent, tcUuids, tcSession, tcRecordedIn,
                   tcDelivered, tcLast, srvVars, cliVars, panelVars, regVars, fnVars>>

\* lines 28-77: the token arrived; the channel is created, put in state and
\* given its listeners (lines 48 and 53 and, after the render, line 192)
ToolTokenFetched ==
    /\ tcStartPc = "token"
    /\ tcDataChannel' = "dc"
    /\ tcChannelState' = "connecting"
    /\ tcSent' = <<>>
    /\ tcLast' = NoDelivery
    /\ tcStartPc' = "connecting"
    /\ UNCHANGED <<tcIsSessionActive, tcEvents, tcEvaluationResults, tcUuids,
                   tcSession, tcRecordedIn, tcDelivered, srvVars, cliVars,
                   panelVars, regVars, fnVars>>

\* lines 27-30: the fetch rejects or the body carries no client_secret
ToolTokenFailed ==
    /\ tcStartPc = "token"
    /\ tcStartPc' = "none"
    /\ UNCHANGED <<tcIsSessionActive, tcEvents, tcDataChannel, tcEvaluationResults,
                   tcChannelState, tcSent, tcUuids, tcSession, tcRecordedIn,
                   tcDelivered, tcLast, srvVars, cliVars, panelVars, regVars, fnVars>>

\* lines 48-51: the "open" listener
ToolChannelOpen ==
    /\ tcStartPc = "connecting"
    /\ tcChannelState = "connecting"
    /\ tcChannelState' = "open"
    /\ tcIsSessionActive' = TRUE
    /\ tcEvents' = <<>>
    /\ tcSession' = tcSession + 1
    /\ tcStartPc' = "none"
    /\ UNCHANGED <<tcDataChannel, tcEvaluationResults, tcSent, tcUuids,
                   tcRecordedIn, tcDelivered, tcLast, srvVars, cliVars, panelVars, regVars, fnVars>>

\* lines 53-56 and 179-190: a message of the channel; the listener of
\* startSession logs it, then handleMessage logs it and, for the three types
\* it names, calls handleToolCall
ToolDeliverMessage(event) ==
    /\ tcChannelState = "open"
    /\ tcDelivered < MaxToolMessages
    /\ LET logged == [results |-> tcEvaluationResults, recorded |-> <<>>,
                      sent |-> tcSent, events |-> <<event, event>> \o tcEvents,
                      uuids |-> tcUuids]
           st == IF event.type \in HandledTypes
                 THEN handleToolCall(tcDataChannel, event, logged)
                 ELSE logged
       IN  /\ tcEvaluationResults' = st.results
           /\ tcSent' = st.sent
           /\ tcEvents' = st.events
           /\ tcUuids' = st.uuids
           /\ tcRecordedIn' = tcRecordedIn \o [k \in 1..Len(st.recorded) |-> tcSession]
           /\ tcLast' = [event |-> event, recorded |-> st.recorded,
                         resultsBefore |-> Len(tcEvaluationResults),
                         sentBefore |-> Len(tcSent)]
    /\ tcDelivered' = tcDelivered + 1
    /\ UNCHANGED <<tcIsSessionActive, tcDataChannel, tcChannelState, tcStartPc,
                   tcSession, srvVars, cliVars, panelVars, regVars, fnVars>>

\* lines 107-127: function sendUserMessage(text)
ToolSendUserMessage(text) ==
    /\ tcIsSessionActive
    /\ tcDelivered < MaxToolMessages
    /\ LET st == tcSendEventToModel(tcDataChannel,
                    [type |-> "response.create"],
                    tcSendEventToModel(tcDataChannel,
                        [type |-> "conversation.item.create",
                         item |-> [type |-> "message", role |-> "user",
                                   content |-> << [type |-> "input_text",
                                                   text |-> text] >>]],
                        [sent |-> tcSent, events |-> tcEvents, uuids |-> tcUuids]))
       IN  /\ tcSent' = st.sent
           /\ tcEvents' = st.events
           /\ tcUuids' = st.uuids
    /\ tcLast' = NoDelivery
    /\ tcDelivered' = tcDelivered + 1
    /\ UNCHANGED <<tcIsSessionActive, tcDataChannel, tcEvaluationResults,
                   tcChannelState, tcStartPc, tcSession, tcRecordedIn, srvVars,
                   cliVars, panelVars, regVars, fnVars>>

\* lines 83-91: function stopSession()
ToolStopSession ==
    /\ tcIsSessionActive
    /\ tcChannelState' = IF tcDataChannel # "null" THEN "closed" ELSE tcChannelState
    /\ tcIsSessionActive' = FALSE
    /\ tcDataChannel' = "null"
    /\ UNCHANGED <<tcEvents, tcEvaluationResults, tcSent, tcStartPc, tcUuids,
                   tcSession, tcRecordedIn, tcDelivered, tcLast, srvVars, cliVars,
                   panelVars, regVars, fnVars>>

NextTool ==
    \/ ToolStartSession
    \/ ToolTokenFetched
    \/ ToolTokenFailed
    \/ ToolChannelOpen
    \/ \E event \in ToolMessages : ToolDeliverMessage(event)
    \/ \E text \in ToolUserTexts : ToolSendUserMessage(text)
    \/ ToolStopSession

SpecTool == Init /\ [][NextTool]_vars

(***************************************************************************)
(* The tool-call App with the panel that registers the tool                *)
(* (src/unnamed/part_001:16-124; part_003:233-239 renders it).  React runs *)
(* the panel's effects after each render, before the next event.           *)
(***************************************************************************)
\* part_001:26-80: const evaluationTool, a new object in every render
SessionUpdate == [type |-> "session.update", session |-> "tools, instructions"]

\* part_001:91-108
SystemMessage ==
    [type |-> "conversation.item.create",
     item |-> [type |-> "message", role |-> "system",
               content |-> << [type |-> "text", text |-> "Hello!"] >>]]

\* part_001:110-115
FirstResponseCreate ==
    [type |-> "response.create", response |-> [function_call |-> "auto"]]

\* the messages of the channel in the runs with the panel
RegisterMessages ==
    { ChannelMessage("response.done", TRUE, <<GoodCall>>, FALSE, <<>>),
      ChannelMessage("response.output_item.done", FALSE, <<>>, FALSE, <<>>) }

\* an effect of the last render has still to run
PanelEffectPending ==
    \/ tcIsSessionActive /\ ~toolRegistered
    \/ ~tcIsSessionActive /\ toolRegistered

\* part_001:82-90 and 117: the effect registers the tool and sets the timer
ToolPanelRegisters ==
    /\ tcIsSessionActive
    /\ ~toolRegistered
    /\ LET st == tcSendEventToModel(tcDataChannel, SessionUpdate,
                    [sent |-> tcSent, events |-> tcEvents, uuids |-> tcUuids])
       IN  /\ tcSent' = st.sent
           /\ tcEvents' = st.events
           /\ tcUuids' = st.uuids
    /\ toolRegistered' = TRUE
    /\ timers' = timers \cup {tcSession}
    /\ tcLast' = NoDelivery
    /\ UNCHANGED <<tcIsSessionActive, tcDataChannel, tcEvaluationResults,
                   tcChannelState, tcStartPc, tcSession, tcRecordedIn,
                   tcDelivered, tcAttempts, srvVars, cliVars, panelVars, fnVars>>

\* part_001:120-124: the effect that follows the end of a session
ToolPanelResets ==
    /\ ~tcIsSessionActive
    /\ toolRegistered
    /\ toolRegistered' = FALSE
    /\ UNCHANGED <<timers, tcAttempts, toolVars, srvVars, cliVars, panelVars,
                   fnVars>>

\* part_001:90-116: the callback of setTimeout, 500 ms after the effect of
\* session k.  Its sendEventToModel is the one of the render of that effect
\* and holds the channel of session k; on a channel that is no longer open
\* dataChannel.send throws and the callback ends there.
ToolTimerFires(k) ==
    /\ k \in timers
    /\ timers' = timers \ {k}
    /\ IF k = tcSession /\ tcChannelState = "open"
       THEN LET st == tcSendEventToModel("dc", FirstResponseCreate,
                         tcSendEventToModel("dc", SystemMessage,
                            [sent |-> tcSent, events |-> tcEvents,
                             uuids |-> tcUuids]))
            IN  /\ tcSent' = st.sent
                /\ tcEvents' = st.events
                /\ tcUuids' = st.uuids
                /\ tcLast' = NoDelivery
                /\ UNCHANGED tcAttempts
       ELSE /\ tcAttempts' = Append(tcAttempts,
                                    [session |-> k, type |-> SystemMessage.type,
                                     outcome |-> "threw"])
            /\ tcUuids' = tcUuids + 1
            /\ UNCHANGED <<tcSent, tcEvents, tcLast>>
    /\ UNCHANGED <<tcIsSessionActive, tcDataChannel, tcEvaluationResults,
                   tcChannelState, tcStartPc, tcSession, tcRecordedIn,
                   tcDelivered, toolRegistered, srvVars, cliVars, panelVars,
                   fnVars>>

NextRegister ==
    \/ ~PanelEffectPending /\ ToolStartSession
    \/ ~PanelEffectPending /\ ToolTokenFetched
    \/ ~PanelEffectPending /\ ToolTokenFailed
    \/ ~PanelEffectPending /\ ToolChannelOpen
    \/ ~PanelEffectPending /\ \E event \in RegisterMessages : ToolDeliverMessage(event)
    \/ ~PanelEffectPending /\ \E text \in ToolUserTexts : ToolSendUserMessage(text)
    \/ ~PanelEffectPending /\ ToolStopSession
    \/ ToolPanelRegisters
    \/ ToolPanelResets
    \/ \E k \in 1..MaxToolSessions : ToolTimerFires(k)

SpecRegister == Init /\ [][NextRegister]_vars

(***************************************************************************)
(* Properties of the client's transcript                                   *)
(***************************************************************************)
UserTranscriptType == "conversation.item.input_audio_transcription.completed"
AssistantTranscriptType == "response.audio_transcript.done"

IsTranscriptBearing(ev) ==
    ev.type \in {UserTranscriptType, AssistantTranscriptType}

RoleOfTranscript(ev) ==
    IF ev.type = UserTranscriptType THEN "user" ELSE "assistant"

Stopped == stopOutcome # "none"

Positions(seq) == 1..Len(seq)

Spaces(n) == [i \in 1..n |-> " "]

\* t is s without its leading and trailing white space
IsTrimOf(t, s) ==
    /\ t = <<>> \/ (t[1] # " " /\ t[Len(t)] # " ")
    /\ \E i, j \in 0..Len(s) : s = Spaces(i) \o t \o Spaces(j)

CountWhere(seq, Test(_)) == Cardinality({i \in Positions(seq) : Test(seq[i])})

\* C6: the turns come in conversation order: the k-th turn returned is
\* the one built from the k-th transcript-bearing event delivered, so the turn
\* of an event delivered earlier comes before the turn of one delivered later.
C6_TurnsInDeliveryOrder ==
    Stopped =>
        LET delivered == SelectSeq(arrival, IsTranscriptBearing)
        IN  /\ Len(textConversation) = Len(delivered)
            /\ \A k \in Positions(delivered) :
                  /\ textConversation[k].role = RoleOfTranscript(delivered[k])
                  /\ IsTrimOf(textConversation[k].text, delivered[k].transcript)

\* C6: a session stopped after two transcript-bearing events with different
\* turns were delivered
C6_TwoDifferentTurnsBuilt ==
    /\ stopOutcome = "sent"
    /\ \E i, j \in Positions(arrival) :
          /\ i < j
          /\ IsTranscriptBearing(arrival[i])
          /\ IsTranscriptBearing(arrival[j])
          /\ arrival[i].type # arrival[j].type
          /\ Trim(arrival[i].transcript) # Trim(arrival[j].transcript)

IsUserTranscript(ev) == ev.type = UserTranscriptType
IsAssistantTranscript(ev) == ev.type = AssistantTranscriptType
IsUserTurn(turn) == turn.role = "user"
IsAssistantTurn(turn) == turn.role = "assistant"

\* C7: each event of the log yields at most one turn: a transcription
\* .completed event exactly one user turn with its trimmed transcript, an
\* audio_transcript.done event exactly one assistant turn with its trimmed
\* transcript, an event of another type none; an empty log yields an empty
\* transcript.
C7_OneTurnPerTranscriptEvent ==
    Stopped =>
        /\ CountWhere(textConversation, IsUserTurn)
             = CountWhere(events, IsUserTranscript)
        /\ CountWhere(textConversation, IsAssistantTurn)
             = CountWhere(events, IsAssistantTranscript)
        /\ Len(textConversation)
             = CountWhere(events, IsUserTranscript)
               + CountWhere(events, IsAssistantTranscript)
        /\ \A i \in Positions(events) :
              IsTranscriptBearing(events[i]) =>
                  \E k \in Positions(textConversation) :
                      /\ textConversation[k].role = RoleOfTranscript(events[i])
                      /\ IsTrimOf(textConversation[k].text, events[i].transcript)
        /\ \A k \in Positions(textConversation) :
              \E i \in Positions(events) :
                  /\ IsTranscriptBearing(events[i])
                  /\ textConversation[k].role = RoleOfTranscript(events[i])
                  /\ IsTrimOf(textConversation[k].text, events[i].transcript)
        /\ (events = <<>> => textConversation = <<>>)

\* C7: a session stopped with a log that holds a transcript with white space
\* around it and an event of a type no rule names
C7_PaddedTranscriptAndOtherEvent ==
    /\ stopOutcome = "sent"
    /\ \E i \in Positions(events) :
          /\ IsTranscriptBearing(events[i])
          /\ events[i].transcript = <<" ", "s", "i", " ">>
    /\ \E i \in Positions(events) : events[i].type = "response.done"
    /\ \E k \in Positions(textConversation) :
          textConversation[k].text = <<"s", "i">>

\* C8: buildTextConversation has no side effect on its input: after the
\* call the log holds the same events in the same most-recent-first order.
C8_LogStaysMostRecentFirst ==
    /\ Len(events) = Len(arrival)
    /\ \A i \in Positions(events) : events[i] = arrival[Len(arrival) + 1 - i]

\* C8: a session stopped with two different entries in its log
C8_StoppedWithTwoEntries ==
    /\ Stopped
    /\ Len(arrival) >= 2
    /\ arrival[1] # arrival[Len(arrival)]

IsTypedUserMessage(ev) ==
    /\ ev.type = "conversation.item.create"
    /\ ev.item.type = "message"
    /\ ev.item.content # <<>>

\* C9: a manually created conversation item of type message yields a turn
\* with its role and its text, so a message typed through sendUserMessage is
\* a user turn of the transcript built for the final evaluation.
C9_TypedMessageIsATurn ==
    Stopped =>
        \A i \in Positions(arrival) :
            (IsTypedUserMessage(arrival[i])
               /\ Trim(arrival[i].item.content[1].text) # <<>>)
            => \E k \in Positions(textConversation) :
                  /\ textConversation[k].role = arrival[i].item.role
                  /\ textConversation[k].text = Trim(arrival[i].item.content[1].text)

\* C9: a session stopped after the user typed a message
C9_StoppedAfterTypedMessage ==
    /\ Stopped
    /\ \E i \in Positions(sent) : IsTypedUserMessage(sent[i])

\* C12: whenever the /finalEvaluation call of stopSession fails, the stored
\* evaluation is the fallback: the five skill scores, the complexity, the
\* quantitative measures and the overall score 0, the level "Below A1", and
\* the three lists of critical_feedback present.
C12_FailureStoresFallback ==
    evalReply \in FetchFailures =>
        /\ {"skills", "conversation_depth", "quantitative_measures",
            "final_scores", "critical_feedback"} \subseteq DOMAIN evaluationResults
        /\ DOMAIN evaluationResults.skills = SkillNames
        /\ \A s \in SkillNames : evaluationResults.skills[s].score = 0
        /\ evaluationResults.conversation_depth.complexity_achieved = 0
        /\ evaluationResults.quantitative_measures.response_rate = 0
        /\ evaluationResults.quantitative_measures.average_response_length = 0
        /\ evaluationResults.quantitative_measures.grammar_accuracy = 0
        /\ evaluationResults.quantitative_measures.vocabulary_range = 0
        /\ evaluationResults.final_scores.overall_score = 0
        /\ evaluationResults.final_scores.cefr_level = "Below A1"
        /\ {"major_weaknesses", "required_improvements", "study_recommendations"}
             \subseteq DOMAIN evaluationResults.critical_feedback

\* C12: the call of the last stop was answered with a status that is not 2xx
C12_FailedAfterNotOk ==
    /\ evalReply = "notOk"
    /\ pendingEvals = 0
    /\ stopOutcome = "sent"

\* C13: a new session discards the previous evaluation: from the moment
\* startSession is invoked until that session is stopped the stored
\* evaluation is empty, so no evaluation of an earlier session is stored
\* after a later session has started.
C13_NoEvaluationWhileSessionRuns ==
    (startPc # "none" \/ isSessionActive) => evaluationResults = NoEvaluation

\* C13: a session is starting or running while the /finalEvaluation reply of
\* the session before it is still pending
C13_StartedWithReplyPending ==
    /\ startPc # "none" \/ isSessionActive
    /\ pendingEvals > 0

(***************************************************************************)
(* Properties of the evaluation panel                                      *)
(***************************************************************************)
ShowsResults == panelView.kind = "results"

\* C14: every bounded numeric field the panel displays is inside its
\* declared range, for any evaluation object received: the skill scores in
\* 0..20, complexity_achieved in 0..5, overall_score in 0..100, and
\* response_rate, grammar_accuracy and vocabulary_range in 0..100.
C14_ShownNumbersInRange ==
    ShowsResults =>
        /\ \A s \in SkillNames : panelView.shown.skills[s] \in 0..20
        /\ panelView.shown.complexity_achieved \in 0..5
        /\ panelView.shown.overall_score \in 0..100
        /\ panelView.shown.response_rate \in 0..100
        /\ panelView.shown.grammar_accuracy \in 0..100
        /\ panelView.shown.vocabulary_range \in 0..100

\* C14: results are shown for an evaluation whose skill scores, complexity,
\* overall score and vocabulary range all lie outside their ranges
C14_OutOfRangeEvaluationShown ==
    /\ ShowsResults
    /\ panelProps.evaluationResults.skills["grammar"].score = 25
    /\ panelProps.evaluationResults.conversation_depth.complexity_achieved = 7
    /\ panelProps.evaluationResults.final_scores.overall_score = 102
    /\ panelProps.evaluationResults.quantitative_measures.vocabulary_range = 120

\* the clamp as the specification states it
ClampScore(value, max) ==
    IF value < 0 THEN 0 ELSE IF value > max THEN max ELSE value

\* C15: validateScore(value, max) is max(0, min(value, max)): in 0..max,
\* value itself when 0 <= value <= max, 0 when value < 0, max when
\* value > max; applied a second time (by ScoreIndicator) it changes nothing.
C15_ValidateScoreClamps ==
    ShowsResults =>
        LET given == panelProps.evaluationResults
            made == panelView.processedResults
        IN  /\ \A s \in SkillNames :
                  /\ made.skills[s].score = ClampScore(given.skills[s].score, 20)
                  /\ made.skills[s].score \in 0..20
                  /\ panelView.shown.skills[s] = made.skills[s].score
            /\ made.conversation_depth.complexity_achieved
                 = ClampScore(given.conversation_depth.complexity_achieved, 5)
            /\ made.quantitative_measures.vocabulary_range
                 = ClampScore(given.quantitative_measures.vocabulary_range, 100)
            /\ made.final_scores.overall_score
                 = ClampScore(given.final_scores.overall_score, 100)

\* C15: results are shown for an evaluation with a value below 0, one inside
\* its range and one above its maximum
C15_BelowInsideAbove ==
    /\ ShowsResults
    /\ panelProps.evaluationResults.skills["fluency"].score = -5
    /\ panelProps.evaluationResults.conversation_depth.complexity_achieved = 3
    /\ panelProps.evaluationResults.final_scores.overall_score = 102

(***************************************************************************)
(* Properties of the tool-call App                                         *)
(***************************************************************************)
\* the discriminator of an entry says "function call"
MarksFunctionCall(o) == o.type \in {"function_call", "function"}

\* the entry names the tool, directly or under function.name
NamesTheTool(o) == o.name = ToolName \/ o.fname = ToolName

IsQualifyingEntry(o) == MarksFunctionCall(o) /\ NamesTheTool(o)

HasParsableArguments(o) == JSONParse(ArgumentsText(o)).ok

\* the last step was the delivery of a message that handleToolCall was given
ToolCallHandled == tcLast # NoDelivery /\ tcLast.event.type \in HandledTypes

\* the observations and the outbound events the last delivery added
AddedObservations ==
    SubSeq(tcEvaluationResults, tcLast.resultsBefore + 1, Len(tcEvaluationResults))

AddedSends == SubSeq(tcSent, tcLast.sentBefore + 1, Len(tcSent))

\* the last delivery carried two qualifying calls, one of them malformed
OneGoodOneMalformed ==
    /\ ToolCallHandled
    /\ Len(Candidates(tcLast.event)) = 2
    /\ \A k \in 1..2 : IsQualifyingEntry(Candidates(tcLast.event)[k])
    /\ \E k \in 1..2 :
          /\ HasParsableArguments(Candidates(tcLast.event)[k])
          /\ ~HasParsableArguments(Candidates(tcLast.event)[3 - k])

\* C16: a batch with one well-formed and one malformed call of the tool adds
\* exactly one observation, the one of the well-formed call, whichever of the
\* two comes first, and the handler completes (the message is in the log).
C16_MalformedCallSkipped ==
    OneGoodOneMalformed =>
        /\ Len(AddedObservations) = 1
        /\ Len(tcLast.recorded) = 1
        /\ HasParsableArguments(tcLast.recorded[1])
        /\ \E k \in 1..Len(tcEvents) : tcEvents[k] = tcLast.event

\* C16 witness: the malformed call came first and the good one was recorded
C16_MalformedFirstThenGood ==
    /\ ToolCallHandled
    /\ tcLast.event.hasOutput
    /\ tcLast.event.output = <<BrokenCall, GoodCall>>
    /\ Len(AddedObservations) = 1
    /\ AddedObservations[1].id = "call_1"

\* the identifier a call carries: call_id, or id for an entry of tool_calls
CallIdentifier(call) == IF call.call_id # "" THEN call.call_id ELSE call.id

IsAcknowledgmentOf(evt, call) ==
    /\ evt.type = "conversation.item.create"
    /\ evt.item.type = "function_call_output"
    /\ evt.item.call_id = CallIdentifier(call)
    /\ evt.item.call_id # ""

\* C17: the calls that added an observation and the function_call_output
\* events sent are in one-to-one correspondence: the k-th observation added
\* is followed by exactly one acknowledgment, which carries the identifier of
\* the call that added it, and a call that added no observation gets none.
C17_EachObservationAcknowledged ==
    ToolCallHandled =>
        /\ Len(AddedObservations) = Len(tcLast.recorded)
        /\ Len(AddedSends) = Len(tcLast.recorded)
        /\ \A k \in 1..Len(AddedSends) :
              IsAcknowledgmentOf(AddedSends[k], tcLast.recorded[k])
        /\ \A k \in 1..Len(Candidates(tcLast.event)) :
              (\A j \in 1..Len(tcLast.recorded) :
                    tcLast.recorded[j] # Candidates(tcLast.event)[k])
              => \A j \in 1..Len(AddedSends) :
                    ~IsAcknowledgmentOf(AddedSends[j], Candidates(tcLast.event)[k])

\* C17 witness: a batch of a realtime call and a chat-style call was handled
\* and each of the two was acknowledged under its own identifier
C17_TwoCallsAcknowledged ==
    /\ ToolCallHandled
    /\ tcLast.recorded = <<GoodCall, GoodChatCall>>
    /\ Len(AddedSends) = 2
    /\ AddedSends[1].item.call_id = "call_1"
    /\ AddedSends[2].item.call_id = "call_2"

\* the parameter schema of final_language_evaluation
\* (src/unnamed/part_001:26-64)
SatisfiesToolSchema(observation) ==
    /\ {"summary", "final_rating", "coverage"} \subseteq DOMAIN observation
    /\ observation.final_rating \in 1..10
    /\ DOMAIN observation.coverage =
          {"introduction", "basics", "practice_grammar", "wrap_up"}
    /\ \A topic \in DOMAIN observation.coverage :
          observation.coverage[topic] \in BOOLEAN

\* C18: every record of the observation history satisfies the parameter
\* schema of the tool: a final_rating that is an integer from 1 to 10 and the
\* four coverage booleans.
C18_ObservationsSatisfySchema ==
    \A k \in 1..Len(tcEvaluationResults) :
        SatisfiesToolSchema(tcEvaluationResults[k])

\* C18 witness: a call without arguments was recorded and acknowledged
C18_CallWithoutArgumentsRecorded ==
    /\ ToolCallHandled
    /\ tcLast.recorded = <<NoArgumentsCall>>
    /\ Len(AddedObservations) = 1
    /\ DOMAIN AddedObservations[1] = {"id"}

\* the list handleToolCall examines: response.output when the event has one,
\* the top-level tool_calls otherwise
ExaminedList ==
    IF tcLast.event.hasOutput THEN tcLast.event.output
    ELSE IF tcLast.event.hasToolCalls THEN tcLast.event.tool_calls
    ELSE <<>>

\* the entry is marked as a function call (type "function_call", or a
\* function object) and names the tool
IsMarkedCallOfTheTool(o) ==
    /\ o.type = "function_call" \/ o.hasFunction
    /\ NamesTheTool(o)

WasRecorded(o) == \E k \in 1..Len(tcLast.recorded) : tcLast.recorded[k] = o

\* C19: the calls handleToolCall records and acknowledges are exactly, and
\* in order, the entries of the examined list (response.output if the event
\* has one, otherwise tool_calls) that are marked as function calls, name the
\* tool and carry arguments that parse; an entry with another name or
\* another discriminator is never recorded or acknowledged.
C19_ExactlyTheQualifyingCalls ==
    ToolCallHandled =>
        /\ tcLast.recorded =
              SelectSeq(ExaminedList,
                        LAMBDA o : IsMarkedCallOfTheTool(o) /\ HasParsableArguments(o))
        /\ \A k \in 1..Len(ExaminedList) :
              ~IsMarkedCallOfTheTool(ExaminedList[k]) =>
                 /\ ~WasRecorded(ExaminedList[k])
                 /\ \A j \in 1..Len(AddedSends) :
                       ~IsAcknowledgmentOf(AddedSends[j], ExaminedList[k])

\* C19 as stated: every entry under response.output or under tool_calls
\* (with arguments that parse) is recorded if and only if it qualifies
C19_BothListsExamined ==
    ToolCallHandled =>
        \A list \in {tcLast.event.output, tcLast.event.tool_calls} :
            \A k \in 1..Len(list) :
                HasParsableArguments(list[k]) =>
                    (WasRecorded(list[k]) <=> IsMarkedCallOfTheTool(list[k]))

\* C19 witness: of a call of another tool and a call of the tool in one
\* response.output, only the second was recorded
C19_OtherToolSkipped ==
    /\ ToolCallHandled
    /\ tcLast.event.hasOutput
    /\ tcLast.event.output = <<OtherToolCall, GoodCall>>
    /\ tcLast.recorded = <<GoodCall>>
    /\ Len(AddedSends) = 1

\* evaluationResults[evaluationResults.length - 1] of the panel
\* (src/unnamed/part_001:127): the session that recorded it
LatestEvaluationSession == tcRecordedIn[Len(tcRecordedIn)]

\* C20: while a session is active the observation history holds only
\* observations recorded during that session, so the latest evaluation the
\* panel shows is one of the current session.
C20_HistoryOfOneSession ==
    tcIsSessionActive =>
        /\ \A k \in 1..Len(tcRecordedIn) : tcRecordedIn[k] = tcSession
        /\ Len(tcEvaluationResults) = Len(tcRecordedIn)

\* C20 witness: the second session is active and has handled no message
\* yet, while the latest evaluation is one of the first session
C20_EarlierEvaluationStillLatest ==
    /\ tcIsSessionActive
    /\ tcSession = 2
    /\ tcEvents = <<>>
    /\ tcRecordedIn # <<>>
    /\ LatestEvaluationSession = 1

\* C23: the session becomes active only in a step taken after the /token
\* fetch of its startSession has completed, and a value is stored as the
\* evaluation to display only in the step that ends a pending
\* /finalEvaluation fetch of a stopSession, whether it succeeded or failed.
C23_NetworkCallsGateStates ==
    [][ /\ (~isSessionActive /\ isSessionActive') => startPc = "connecting"
        /\ (evaluationResults' # evaluationResults
              /\ evaluationResults' # NoEvaluation) =>
                 /\ pendingEvals > 0
                 /\ pendingEvals' = pendingEvals - 1
                 /\ evalReply' \in {"success"} \cup FetchFailures ]_vars

\* C23 witness: a session was active, was stopped, and the reply of its
\* /finalEvaluation call has been stored
C23_StoppedAndReplyStored ==
    /\ ~isSessionActive
    /\ startPc = "none"
    /\ stopOutcome = "sent"
    /\ pendingEvals = 0
    /\ evalReply = "success"
    /\ evaluationResults # NoEvaluation

RECURSIVE ChronologicalTurns(_)
ChronologicalTurns(log) ==
    IF log = <<>> THEN <<>>
    ELSE ChronologicalTurns(Tail(log)) \o TurnsOfItemEvent(Head(log))

\* C30: given the event log, most recent event first, the message-item
\* buildTextConversation returns the conversation with the earliest message
\* first and the latest last.
C30_EarliestMessageFirst ==
    (fnOutput # NoResult /\ fnOutput.of = "buildTextConversationOfItems") =>
        fnOutput.conversation = ChronologicalTurns(fnInput)

\* C30 witness: the log holds "a" (typed last) above "d" (received first),
\* and the conversation returned starts with "a"
C30_LatestMessageReturnedFirst ==
    /\ fnOutput # NoResult
    /\ fnOutput.of = "buildTextConversationOfItems"
    /\ fnInput = << ItemMessage("user", << <<"a">> >>),
                    ItemMessage("", << <<"d">> >>) >>
    /\ fnOutput.conversation =
          << [role |-> "user", text |-> <<"a">>],
             [role |-> "assistant", text |-> <<"d">>] >>

\* the messages the channel delivered since the log was cleared, as the
\* identifiers the service gave them
DeliveredTranscriptIds ==
    { arrival[i].event_id : i \in { j \in Positions(arrival) :
                                       IsTranscriptBearing(arrival[j]) } }

\* C25: each message the data channel delivers is recorded once in the event
\* log, and the transcript built at stop has exactly one turn per transcript
\* event delivered during the session.
C25_EachMessageRecordedOnce ==
    /\ \A i, j \in Positions(events) :
          i # j => events[i].event_id # events[j].event_id
    /\ Stopped => Len(textConversation) = Cardinality(DeliveredTranscriptIds)

\* C25 witness: one user transcript was delivered, and the transcript built
\* at stop holds two turns
C25_OneMessageTwoTurns ==
    /\ Stopped
    /\ Cardinality(DeliveredTranscriptIds) = 1
    /\ Len(textConversation) = 2
    /\ textConversation[1] = textConversation[2]
    /\ textConversation[1].role = "user"

\* C26: once the data channel of a session has opened, the session is
\* active and the first event sent over that channel is the response.create
\* of the open listener, in the first session and in every later one.
C26_ResponseCreateSentAtOpen ==
    [][ (channelState = "connecting" /\ channelState' = "open") =>
            /\ isSessionActive'
            /\ Len(sent') = 1
            /\ sent'[1].type = "response.create"
            /\ events' = << sent'[1] >> ]_vars

\* C26 witness: the channel has just opened, the session is active and the
\* log is empty, and the response.create of the open listener was dropped
C26_ResponseCreateDroppedAtOpen ==
    /\ isSessionActive
    /\ channelState = "open"
    /\ events = <<>>
    /\ sent = <<>>
    /\ lastSend # NoSend
    /\ lastSend.given = ResponseCreate
    /\ lastSend.outcome = "dropped"

\* C27: after a stopSession the panel eventually shows an evaluation or
\* the fallback instead of its loading state, unless a new session is
\* started first, also when the session gave no transcript turn; and the
\* panel never renders its loading state for an active session.
C27_LoadingStateEnds ==
    /\ [](panelProps.isSessionActive => panelView.kind # "loading")
    /\ (Stopped /\ ~isSessionActive)
          ~> (panelView.kind = "results" \/ startPc # "none")

\* C27 witness: a session without transcript turns was stopped, nothing is
\* pending any more, and the panel shows its loading state
C27_LoadingWithNothingPending ==
    /\ ~isSessionActive
    /\ startPc = "none"
    /\ stopOutcome = "empty"
    /\ pendingEvals = 0
    /\ evaluationResults = NoEvaluation
    /\ PanelSettled
    /\ panelView.kind = "loading"

(***************************************************************************)
(* Properties of sendEventToModel                                          *)
(***************************************************************************)
\* the identifiers that sendEventToModel drew itself among those sent
AssignedIds == { k \in 1..Len(sent) : sent[k].event_id \notin GivenEventIds }

\* C21: every event handed to the data channel carries an event_id; an event
\* that came with one keeps it, an event without one gets an identifier no
\* event sent before in the session carries, and the identifiers assigned
\* are pairwise distinct within the session.
C21_EveryEventSentIsTagged ==
    /\ \A k \in 1..Len(sent) : EventIdOf(sent[k]) # 0
    /\ \A j, k \in AssignedIds : j # k => sent[j].event_id # sent[k].event_id
    /\ (lastSend # NoSend /\ lastSend.outcome = "sent") =>
          /\ sent[Len(sent)].type = lastSend.given.type
          /\ sent[Len(sent)].item = lastSend.given.item
          /\ EventIdOf(lastSend.given) # 0 =>
                sent[Len(sent)].event_id = lastSend.given.event_id
          /\ EventIdOf(lastSend.given) = 0 =>
                \A k \in 1..(Len(sent) - 1) :
                    sent[k].event_id # sent[Len(sent)].event_id

\* C21 witness: an event that came with an identifier was sent after one
\* that got its identifier from sendEventToModel
C21_GivenIdSentAfterAssignedOne ==
    /\ Len(sent) >= 2
    /\ lastSend # NoSend
    /\ lastSend.outcome = "sent"
    /\ EventIdOf(lastSend.given) \in GivenEventIds
    /\ sent[Len(sent)].event_id = lastSend.given.event_id
    /\ sent[1].event_id \notin GivenEventIds

\* C22: a send attempted while the data channel is not open (not created
\* yet, connecting or closed) is dropped without an error: the call returns
\* and neither the channel nor the event log gets the event.
C22_SendOnClosedChannelDropped ==
    (lastSend # NoSend /\ lastSend.readyState # "open") =>
        lastSend.outcome = "dropped"

\* C22 witness: a typed message met a channel the peer had closed, and
\* dataChannel.send threw
C22_SendThrewOnClosedChannel ==
    /\ isSessionActive
    /\ dataChannel # "null"
    /\ channelState = "closed"
    /\ lastSend # NoSend
    /\ lastSend.outcome = "threw"
    /\ lastSend.given.type = "conversation.item.create"
    /\ EventIdOf(lastSend.given) = 0

(***************************************************************************)
(* Properties of the tool-registering panel                                *)
(***************************************************************************)
IsRegistration(evt) == evt.type = "session.update"

IsSystemMessage(evt) ==
    /\ "item" \in DOMAIN evt
    /\ evt.item.type = "message"
    /\ evt.item.role = "system"

IsResponseCreate(evt) == evt.type = "response.create"

Registrations == { k \in 1..Len(tcSent) : IsRegistration(tcSent[k]) }

\* C28: over the channel of a session the session.update that registers
\* the tool is sent once and only once, it precedes the system message, and
\* the system message precedes the first response.create; this holds again
\* in the session that follows a stop.
C28_RegistrationThenSystemMessage ==
    /\ Cardinality(Registrations) <= 1
    /\ (tcIsSessionActive /\ ~PanelEffectPending) => Cardinality(Registrations) = 1
    /\ \A k \in 1..Len(tcSent) :
          IsSystemMessage(tcSent[k]) =>
              \E j \in 1..(k - 1) : IsRegistration(tcSent[j])
    /\ \A k \in 1..Len(tcSent) :
          IsResponseCreate(tcSent[k]) =>
              \E j \in 1..(k - 1) : IsSystemMessage(tcSent[j])

\* C28 witness: in the second session the tool was registered again, then
\* a typed message and its response.create went out before the timer fired
C28_ResponseCreateBeforeSystemMessage ==
    /\ tcSession = 2
    /\ tcIsSessionActive
    /\ Len(tcSent) = 3
    /\ IsRegistration(tcSent[1])
    /\ tcSent[2].type = "conversation.item.create"
    /\ tcSent[2].item.role = "user"
    /\ IsResponseCreate(tcSent[3])
    /\ 2 \in timers

\* C29: once stopSession has run, nothing is sent or attempted on the
\* channel of that session and nothing is added to the event log; the
\* callback of the 500 ms timer, when the session was stopped in between,
\* sends nothing and attempts nothing.
C29_NothingSentAfterStop ==
    [][ /\ Len(tcAttempts') = Len(tcAttempts)
        /\ (~tcIsSessionActive /\ ~tcIsSessionActive') =>
              /\ tcSent' = tcSent \/ tcSent' = <<>>
              /\ tcEvents' = tcEvents ]_vars

\* C29 witness: the first session was stopped within the delay, and the
\* timer's callback then called send on its closed channel
C29_TimerFiredAfterStop ==
    /\ ~tcIsSessionActive
    /\ tcSession = 1
    /\ timers = {}
    /\ Len(tcAttempts) = 1
    /\ tcAttempts[1].session = 1
    /\ tcAttempts[1].outcome = "threw"
    /\ Len(tcSent) = 1

====
